---- MODULE Spec2Model ----
(***************************************************************************)
(* ORF-RATER: the regression stage (regress_ORFs.py) and the merge of the  *)
(* rating stage (rate_regression_output.py), as state machines.            *)
(*                                                                         *)
(* A 2-D numpy array of shape (len(rdlens), n) is a sequence of n columns, *)
(* each column a sequence of len(rdlens) numbers.  Template values are the *)
(* numerators of the metagene densities; every use the regression makes of *)
(* them that is modelled here (sign of a dot product, singularity of a     *)
(* Gram matrix) is unchanged by the common positive denominator.           *)
(***************************************************************************)
EXTENDS Integers, Sequences, FiniteSets, TLC

VARIABLES
    pc,          \* position of the script / of the call under study
    startnt,     \* module global startnt = (first, last+1) offset around the start codon
    stopnt,      \* module global stopnt
    startprof,   \* module global startprof, shape (len(rdlens), startlen)
    cdsprof,     \* module global cdsprof, shape (len(rdlens), 3)
    stopprof,    \* module global stopprof, shape (len(rdlens), stoplen)
    orflen,      \* argument of the ORF_profile call under study
    profile,     \* value returned by that call
    startonly,   \* opts.startonly
    startcount,  \* opts.startcount
    strand,      \* strand of the transcript family under study
    ORF_set,     \* argument of the regress_tfam call under study (rows of all_ORFs)
    counts,      \* read counts of the family, raveled: index nnt*i + position
    result,      \* outcome of that call: value returned or exception raised
    metagenefile,   \* opts.metagenefile: a path, or None
    outfile,        \* opts.outfile: a path, or None
    startrange,     \* opts.startrange
    stoprange,      \* opts.stoprange
    files,          \* the file system: the content of every file that exists, by path
    orfstore,       \* by chromosome: the reference CDSs and the families of all_ORFs
    bedlinedict,    \* module global bedlinedict: the transcripts of opts.inbed, here its keys
    tfamtids,       \* module global tfamtids: the transcripts of every family of TFAMSTEM.txt
    metagene,       \* the DataFrame read from the metagene file (line 313)
    mg_results,     \* what workers.map(get_annotated_counts_by_chrom, chroms) has back, by chromosome
    num_cds_incl,   \* module global num_cds_incl
    chrom_results,  \* what workers.map(regress_chrom, chroms) has back, by chromosome
    raised,         \* the exception that ended the script, or None
    regressfiles,   \* rating stage: the regression stores read, in the order given
    goldallcodons,  \* rating stage: opts.goldallcodons
    orfratings,     \* rating stage: the DataFrame orfratings
    gold_df,        \* rating stage: the DataFrame gold_df
    minperleaf,     \* rating stage: opts.minperleaf[0]
    cv_score,       \* rating stage: what _get_score returns, by min_samples_leaf
    search          \* rating stage: the locals of the search of lines 158-184

profVars == <<startnt, stopnt, startprof, cdsprof, stopprof>>
callVars == <<orflen, profile>>
tfamVars == <<startonly, startcount, strand, ORF_set, counts, result>>
optVars == <<metagenefile, outfile, startrange, stoprange, orfstore, bedlinedict, tfamtids>>
runVars == <<optVars, files, metagene, mg_results, num_cds_incl, chrom_results, raised>>
searchVars == <<minperleaf, cv_score, search>>
rateVars == <<regressfiles, goldallcodons, orfratings, gold_df, searchVars>>
vars == <<pc, profVars, callVars, tfamVars, runVars, rateVars>>

None == "None"

\* No search for min_samples_leaf is under way.
NoSearch == minperleaf = 0 /\ cv_score = <<>> /\ search = <<>>

(***************************************************************************)
(* Bounds of the model.                                                    *)
(***************************************************************************)
NRd == 1            \* len(rdlens): number of accepted read lengths
MaxWin == 2         \* largest STARTRANGE entry and STOPRANGE[1] tried, in codons
MaxStopWin == 4     \* largest STOPRANGE[0] tried, in codons
MaxOrfCodons == 8   \* longest ORF handed to ORF_profile, in codons

(***************************************************************************)
(* Python and numpy primitives.                                            *)
(***************************************************************************)
Abs(x) == IF x < 0 THEN -x ELSE x

Min(x, y) == IF x < y THEN x ELSE y

Max(x, y) == IF x > y THEN x ELSE y

\* A slice bound i on a sequence of length n: negative bounds count from the end,
\* and the result is clamped to 0..n.
PyBound(i, n) == IF i < 0 THEN Max(i + n, 0) ELSE Min(i, n)

\* s[lo:hi]
PySlice(s, lo, hi) == SubSeq(s, PyBound(lo, Len(s)) + 1, PyBound(hi, Len(s)))

\* s[lo:]
PyFrom(s, lo) == SubSeq(s, PyBound(lo, Len(s)) + 1, Len(s))

\* s[:hi]
PyTo(s, hi) == SubSeq(s, 1, PyBound(hi, Len(s)))

\* np.tile(arr, reps) along the columns
RECURSIVE Tile(_, _)
Tile(arr, reps) == IF reps <= 0 THEN <<>> ELSE arr \o Tile(arr, reps - 1)

(***************************************************************************)
(* The window bounds and the template shapes.                              *)
(***************************************************************************)
\* startnt / stopnt from STARTRANGE / STOPRANGE
WindowNt(range) == <<-Abs(range[1]) * 3, Abs(range[2]) * 3>>

short_stop == 9

\* One template column: the same numerator in every read-length row.
Col(v) == [r \in 1..NRd |-> v]

\* Templates of the shapes the metagene pass allocates; a peak on the first
\* nucleotide of the start codon and on the last codon before the stop.
StartTemplate(snt) == [k \in 1..(snt[2] - snt[1]) |-> Col(IF k = 1 - snt[1] THEN 2 ELSE 1)]

CdsTemplate == [k \in 1..3 |-> Col(1)]

StopTemplate(pnt) == [k \in 1..(pnt[2] - pnt[1]) |-> Col(IF k > -pnt[1] - 3 /\ k <= -pnt[1] THEN 2 ELSE 1)]

(***************************************************************************)
(* ORF_profile(orflen): the expected profile of an ORF of orflen nt.       *)
(***************************************************************************)
ORF_profile(len) ==
    IF len >= startnt[2] - stopnt[1]
    THEN startprof \o Tile(cdsprof, (len - startnt[2] + stopnt[1]) \div 3) \o stopprof
    ELSE IF len >= startnt[2] + short_stop
    THEN startprof \o PyFrom(stopprof, startnt[2] - len - stopnt[2])
    ELSE IF len >= short_stop
    THEN PyTo(startprof, len - short_stop - startnt[1]) \o PyFrom(stopprof, -short_stop - stopnt[2])
    ELSE PyTo(startprof, 3 - startnt[1]) \o PyFrom(stopprof, 3 - len - stopnt[1])

\* The four length regimes of ORF_profile, in the order the code tests them.
Regime(len) ==
    IF len >= startnt[2] - stopnt[1] THEN "long"
    ELSE IF len >= startnt[2] + short_stop THEN "nobody"
    ELSE IF len >= short_stop THEN "short"
    ELSE "veryshort"

(***************************************************************************)
(* The transcripts of the family under study (bedlinedict) and its shared  *)
(* genomic coordinate frame.  t1 is unspliced; t2 skips the intron.        *)
(***************************************************************************)
TLen == 15          \* length of transcript t1 in nucleotides

Tids == {"t1", "t2"}

Intron == {6, 7, 8}

\* SegmentChain.from_bed(bedlinedict[tid]).get_position_set()
Genpos(tid) == IF tid = "t1" THEN 0..(TLen - 1) ELSE (0..(TLen + 2)) \ Intron

RECURSIVE SortedSeq(_)
SortedSeq(S) ==
    IF S = {} THEN <<>>
    ELSE LET m == CHOOSE x \in S : \A y \in S : x <= y IN <<m>> \o SortedSeq(S \ {m})

Reverse(s) == [k \in 1..Len(s) |-> s[Len(s) + 1 - k]]

\* df.iloc[idx] for a set idx of 1-based row numbers, in row order
Take(df, idx) == LET o == SortedSeq(idx) IN [k \in 1..Len(o) |-> df[o[k]]]

\* all_tfam_genpos: the positions covered by any transcript of the rows, 5' to 3'
all_tfam_genpos(rows, str) ==
    LET pos == UNION {Genpos(rows[k].tid) : k \in 1..Len(rows)}
    IN IF str = "-" THEN Reverse(SortedSeq(pos)) ELSE SortedSeq(pos)

\* tid_indices[tid]: the 0-based places of the transcript's positions in the frame
tid_indices(frame, tid) ==
    SortedSeq({i \in 0..(Len(frame) - 1) : frame[i + 1] \in Genpos(tid)})

tlens(tid) == Cardinality(Genpos(tid))

\* The transcript's own positions 5' to 3', and the genomic coordinates the ORF
\* store holds for an ORF at tcoord..tstop of it.
TransPos(tid, str) == IF str = "-" THEN Reverse(SortedSeq(Genpos(tid))) ELSE SortedSeq(Genpos(tid))

Gcoord(tid, str, tcoord) == TransPos(tid, str)[tcoord + 1]

Gstop(tid, str, tstop) == TransPos(tid, str)[tstop] + (IF str = "-" THEN -1 ELSE 1)

\* One row of all_ORFs.  The name of an ORF is given by its genomic start and
\* stop and its length, so the same ORF on two transcripts has one name.
OrfRow(tid, str, tcoord, tstop) ==
    [ORF_name |-> [kind |-> "orf", g |-> Gcoord(tid, str, tcoord),
                   h |-> Gstop(tid, str, tstop), n |-> tstop - tcoord],
     tid |-> tid, tcoord |-> tcoord, tstop |-> tstop,
     gcoord |-> Gcoord(tid, str, tcoord), gstop |-> Gstop(tid, str, tstop)]

(***************************************************************************)
(* pandas primitives on a DataFrame held as a sequence of rows.            *)
(***************************************************************************)
\* df.drop_duplicates(col): the first row of every value of col
drop_duplicates(df, col) ==
    Take(df, {i \in 1..Len(df) : \A j \in 1..(i - 1) : df[j][col] # df[i][col]})

\* df.sort(col, ascending=False); rows with equal keys keep their order
sort_descending(df, col) ==
    LET rank(i) == 1 + Cardinality({j \in 1..Len(df) : df[j][col] > df[i][col]})
                     + Cardinality({j \in 1..(i - 1) : df[j][col] = df[i][col]})
    IN [k \in 1..Len(df) |-> df[CHOOSE i \in 1..Len(df) : rank(i) = k]]

RECURSIVE SumTo(_, _)
SumTo(f, n) == IF n = 0 THEN 0 ELSE f[n] + SumTo(f, n - 1)

\* sum of a sequence of numbers
SumSeq(s) == SumTo(s, Len(s))

(***************************************************************************)
(* regress_tfam, lines 178-199: the start-count filter and the candidates. *)
(***************************************************************************)
\* counts[(start_idxes.repeat(len(rdlens))+offsetmat)].sum() of one row
StartReads(row, frame, cnt) ==
    LET start_idxes == PySlice(tid_indices(frame, row.tid), row.tcoord - 1, row.tcoord + 2)
        nnt == Len(frame)
    IN SumSeq([k \in 1..Len(start_idxes) |->
                  SumSeq([r \in 1..NRd |-> cnt[start_idxes[k] + nnt * (r - 1) + 1]])])

FilterStartCount(rows, frame, cnt, mincount) ==
    IF mincount # 0
    THEN Take(rows, {i \in 1..Len(rows) : StartReads(rows[i], frame, cnt) >= mincount})
    ELSE rows

\* A variant that keeps one row per ORF instead of one per genomic start.
abort_set_PerORF(rows) ==
    LET d == drop_duplicates(rows, "ORF_name")
    IN [k \in 1..Len(d) |->
          [d[k] EXCEPT !.gstop = d[k].gcoord,
                       !.tstop = d[k].tcoord + 3,
                       !.ORF_name = [kind |-> "abort", g |-> d[k].gcoord, h |-> 0, n |-> 0]]]

abort_set(rows) ==
    LET d == drop_duplicates(rows, "gcoord")
    IN [k \in 1..Len(d) |->
          [d[k] EXCEPT !.gstop = d[k].gcoord,
                       !.tstop = d[k].tcoord + 3,
                       !.ORF_name = [kind |-> "abort", g |-> d[k].gcoord, h |-> 0, n |-> 0]]]

stop_set(rows) ==
    LET d == drop_duplicates(rows, "gstop")
    IN [k \in 1..Len(d) |->
          [d[k] EXCEPT !.gcoord = d[k].gstop,
                       !.tcoord = d[k].tstop,
                       !.ORF_name = [kind |-> "stop", g |-> d[k].gstop, h |-> 0, n |-> 0]]]

\* ORF_strength_df before the fit: real ORFs, abortive initiation, histop
Candidates(rows, sonly) ==
    drop_duplicates(sort_descending(rows, "tcoord"), "ORF_name")
        \o abort_set(rows)
        \o (IF sonly THEN <<>> ELSE stop_set(rows))

(***************************************************************************)
(* regress_tfam, lines 200-225: the design matrix.                         *)
(***************************************************************************)
startadj(row) == IF row.tcoord + startnt[1] < 0 THEN -startnt[1] - row.tcoord ELSE 0

stopadj(row) ==
    IF row.tstop + stopnt[2] > tlens(row.tid) THEN row.tstop + stopnt[2] - tlens(row.tid) ELSE 0

curr_indices(row, frame) ==
    IF row.tcoord # row.tstop
    THEN PySlice(tid_indices(frame, row.tid),
                 row.tcoord + startnt[1] + startadj(row), row.tstop + stopnt[2] - stopadj(row))
    ELSE PySlice(tid_indices(frame, row.tid), row.tstop - 6, row.tstop)

\* the candidate's expected profile before .ravel(), as columns
ORF_prof(row) ==
    IF row.tcoord # row.tstop
    THEN PySlice(ORF_profile(row.tstop - row.tcoord), startadj(row),
                 row.tstop - row.tcoord + stopnt[2] - startnt[1] - stopadj(row))
    ELSE PyFrom(stopprof, -6)

\* len(indices[-1]) and len(ORF_profs[-1])
IndexLen(row, frame) == NRd * Len(curr_indices(row, frame))

ProfLen(row) == Len(ORF_prof(row)) * NRd

LengthMismatch(row, frame) == IndexLen(row, frame) # ProfLen(row)

\* One column of ORF_matrix as a dense vector over the rows 1..nnt*len(rdlens)
\* (row nnt*i + position, 0-based, is entry nnt*i + position + 1).
MatrixColumn(row, frame) ==
    LET nnt == Len(frame)
        ci == curr_indices(row, frame)
        pr == ORF_prof(row)
    IN [e \in 1..(NRd * nnt) |->
          LET i == (e - 1) \div nnt
              p == (e - 1) % nnt
          IN IF \E k \in 1..Len(ci) : ci[k] = p
             THEN pr[CHOOSE k \in 1..Len(ci) : ci[k] = p][i + 1]
             ELSE 0]

\* IEEE not-a-number, what 0/0 leaves in a template; every number is >= 0
NaN == -1

\* ORF_matrix.T.dot(counts) for one column: NaN as soon as the column holds one
Dot(u, v) ==
    IF \E e \in 1..Len(u) : u[e] = NaN THEN NaN
    ELSE SumSeq([e \in 1..Len(u) |-> u[e] * v[e]])

(***************************************************************************)
(* Rank of a matrix, by fraction-free elimination on its rows:             *)
(* np.linalg.inv raises LinAlgError exactly on a singular matrix, and      *)
(* A^T A is singular exactly when the rank of A is below its number of     *)
(* columns.  Zero rows and repeated rows of A do not change its rank.      *)
(***************************************************************************)
RECURSIVE GCD(_, _)
GCD(a, b) == IF b = 0 THEN a ELSE GCD(b, a % b)

RECURSIVE VecGcd(_, _)
VecGcd(v, n) == IF n = 0 THEN 0 ELSE GCD(Abs(v[n]), VecGcd(v, n - 1))

Normalize(v) ==
    LET g == VecGcd(v, Len(v)) IN IF g <= 1 THEN v ELSE [e \in 1..Len(v) |-> v[e] \div g]

\* the first nonzero entry of v at or after e; 0 when there is none
RECURSIVE Pivot(_, _)
Pivot(v, e) == IF e > Len(v) THEN 0 ELSE IF v[e] # 0 THEN e ELSE Pivot(v, e + 1)

\* v with its entry at the pivot of basis vector b eliminated
ReduceBy(v, b) ==
    IF v[b.p] = 0 THEN v
    ELSE Normalize([e \in 1..Len(v) |->
                       Abs(b.v[b.p]) * v[e] - (IF b.v[b.p] < 0 THEN -v[b.p] ELSE v[b.p]) * b.v[e]])

RECURSIVE ReduceAll(_, _, _)
ReduceAll(v, basis, k) ==
    IF k > Len(basis) THEN v ELSE ReduceAll(ReduceBy(v, basis[k]), basis, k + 1)

\* the basis is kept in the order of its pivots
InsertByPivot(basis, b) ==
    SelectSeq(basis, LAMBDA c : c.p < b.p) \o <<b>> \o SelectSeq(basis, LAMBDA c : c.p > b.p)

\* the rank of the row vectors in rows, each of length n, given an echelon basis
RECURSIVE RankFrom(_, _, _)
RankFrom(rows, n, basis) ==
    IF rows = {} \/ Len(basis) = n THEN Len(basis)
    ELSE LET r == CHOOSE r \in rows : TRUE
             v == ReduceAll(r, basis, 1)
             q == Pivot(v, 1)
         IN RankFrom(rows \ {r}, n,
                     IF q = 0 THEN basis ELSE InsertByPivot(basis, [p |-> q, v |-> v]))

\* the distinct rows of the matrix whose columns are cols
MatrixRows(cols) == {[j \in 1..Len(cols) |-> cols[j][e]] : e \in 1..Len(cols[1])}

\* ORF_matrix.T.dot(ORF_matrix) is singular
Singular(cols) == RankFrom(MatrixRows(cols), Len(cols), <<>>) < Len(cols)

\* A variant that has three tables in either mode.
failure_return_Full == <<<<>>, <<>>, <<>>>>

(***************************************************************************)
(* regress_tfam, lines 227-296: pruning, the fit, and the aggregation.     *)
(* Strengths are in units of 1e-6.                                         *)
(***************************************************************************)
min_str == 1

failure_return == IF startonly THEN <<<<>>, <<>>>> ELSE <<<<>>, <<>>, <<>>>>

\* The outcome of a call: the value returned or the exception raised, the line
\* of the return or raise statement, and the locals the fit had by then:
\* the candidates and ORF_matrix.T.dot(counts) of each, the candidates handed to
\* nnls, what nnls returned for them, the candidates whose columns make up
\* covmat, and the members of the start and stop groups.
NoFit == [candidates |-> <<>>, support |-> <<>>,
          fitted |-> <<>>, ORF_strs |-> <<>>, covmat_ORFs |-> <<>>,
          gcoord_grps |-> <<>>, gstop_grps |-> <<>>]

Returned(at, ret, loc) == [raised |-> None, at |-> at, ret |-> ret, fit |-> loc]

Raised(exc, at, loc) == [raised |-> exc, at |-> at, ret |-> None, fit |-> loc]

\* A variant that keeps the columns without support (>= for >).
nonzero_ORFs_AtLeast(dots) == {j \in 1..Len(dots) : dots[j] >= 0}

\* nonzero_ORFs = np.flatnonzero(ORF_matrix.T.dot(counts) > 0)
nonzero_ORFs(dots) == {j \in 1..Len(dots) : dots[j] > 0}

\* A variant that keeps a candidate exactly at the threshold (>= for >).
usable_ORFs_AtLeast(x) == {k \in 1..Len(x) : x[k] >= min_str}

\* usable_ORFs = ORF_strs > min_str
usable_ORFs(x) == {k \in 1..Len(x) : x[k] > min_str}

elongating_ORFs(df) == {k \in 1..Len(df) : ~(df[k].gstop = df[k].gcoord)}

include_starts(df) ==
    IF startonly THEN {k \in 1..Len(df) : df[k].tcoord # df[k].tstop}
    ELSE elongating_ORFs(df)

\* A variant without the exclusion of abortive initiation from the stop groups.
include_stops_All(df) == 1..Len(df)

include_stops(df) == elongating_ORFs(df) \cup {k \in 1..Len(df) : df[k].tcoord = df[k].tstop}

\* df.groupby(col).indices: the member rows of every group, by key
groupby(df, col) ==
    [g \in {df[k][col] : k \in 1..Len(df)} |-> {k \in 1..Len(df) : df[k][col] = g}]

\* A variant that takes the first member of the group instead of the sum.
aggregate_first(df, members) == df[CHOOSE k \in members : \A j \in members : k <= j].ORF_strength

\* grps['ORF_strength'].aggregate(np.sum)
aggregate_sum(df, members) == SumSeq([k \in 1..Len(df) |-> IF k \in members THEN df[k].ORF_strength ELSE 0])

\* start_strength_df: one row per group of gcoord_grps, in the order of the keys
start_strength_df(df) ==
    LET sub == Take(df, include_starts(df))
        grp == groupby(sub, "gcoord")
        keys == SortedSeq(DOMAIN grp)
    IN [i \in 1..Len(keys) |->
          [gcoord |-> keys[i], start_strength |-> aggregate_sum(sub, grp[keys[i]])]]

\* stop_strength_df: one row per group of gstop_grps
stop_strength_df(df) ==
    LET sub == Take(df, include_stops(df))
        grp == groupby(sub, "gstop")
        keys == SortedSeq(DOMAIN grp)
    IN [i \in 1..Len(keys) |->
          [gstop |-> keys[i], stop_strength |-> aggregate_sum(sub, grp[keys[i]])]]

\* the ORF_names of the members of every group of df[include].groupby(col)
GroupMembers(df, include, col) ==
    LET sub == Take(df, include)
        grp == groupby(sub, col)
    IN [g \in DOMAIN grp |-> {sub[k].ORF_name : k \in grp[g]}]

ORF_names(df) == [k \in 1..Len(df) |-> df[k].ORF_name]

\* Lines 178-232: everything before the solver.  Either the call is over (an
\* early return or the AssertionError of the assembly loop), or the solver gets
\* the columns with support in the counts.
Assemble(rows, str, cnt) ==
    LET frame == all_tfam_genpos(rows, str)
        kept == FilterStartCount(rows, frame, cnt, startcount)
        df == Candidates(kept, startonly)
        cols == [j \in 1..Len(df) |-> MatrixColumn(df[j], frame)]
        dots == [j \in 1..Len(df) |-> Dot(cols[j], cnt)]
        nz == nonzero_ORFs(dots)
        built == [NoFit EXCEPT !.candidates = ORF_names(df), !.support = dots]
    IN IF startcount # 0 /\ kept = <<>>
       THEN [over |-> TRUE, out |-> Returned(185, failure_return, NoFit)]
       ELSE IF \E j \in 1..Len(df) : LengthMismatch(df[j], frame)
       THEN [over |-> TRUE, out |-> Raised("AssertionError", 221, NoFit)]
       ELSE IF nz = {}
       THEN [over |-> TRUE, out |-> Returned(229, failure_return, built)]
       ELSE [over |-> FALSE, df |-> Take(df, nz), cols |-> Take(cols, nz), loc |-> built]

\* Lines 233-296: x and resid are what nnls returned for asm.cols.
Fit(asm, x, resid) ==
    LET usable == usable_ORFs(x)
        strs == Take(x, usable)
        kept == Take(asm.df, usable)
        ORF_matrix == Take(asm.cols, usable)
        matrix_ORFs == Take(ORF_names(asm.df), usable)
        df == [k \in 1..Len(kept) |->
                 [ORF_name |-> kept[k].ORF_name, tid |-> kept[k].tid,
                  tcoord |-> kept[k].tcoord, tstop |-> kept[k].tstop,
                  gcoord |-> kept[k].gcoord, gstop |-> kept[k].gstop,
                  ORF_strength |-> strs[k]]]
        fitted == [asm.loc EXCEPT !.fitted = ORF_names(asm.df), !.ORF_strs = x]
        cov == [fitted EXCEPT !.covmat_ORFs = matrix_ORFs]
        starts == [cov EXCEPT !.gcoord_grps = GroupMembers(df, include_starts(df), "gcoord")]
        stops == [starts EXCEPT !.gstop_grps = GroupMembers(df, include_stops(df), "gstop")]
    IN IF usable = {}
       THEN Returned(237, failure_return, fitted)
       ELSE IF Singular(ORF_matrix)
       THEN Raised("LinAlgError", 243, fitted)
       ELSE IF resid = 0 /\ include_starts(df) # {}
       THEN Raised("LinAlgError", 270, starts)
       ELSE IF startonly
       THEN Returned(296, <<df, start_strength_df(df)>>, starts)
       ELSE IF resid = 0 /\ include_stops(df) # {}
       THEN Raised("LinAlgError", 283, stops)
       ELSE Returned(294, <<df, start_strength_df(df), stop_strength_df(df)>>, stops)

\* regress_tfam(ORF_set), given what nnls returns
regress_tfam(rows, str, cnt, x, resid) ==
    LET asm == Assemble(rows, str, cnt) IN IF asm.over THEN asm.out ELSE Fit(asm, x, resid)

(***************************************************************************)
(* What scipy.optimize.nnls may hand back for n columns: non-negative      *)
(* strengths (0, at the threshold, above it) and a residual norm that is   *)
(* zero or not.  The vectors tried have one entry of any strength and the  *)
(* others all zero or all at the largest strength.                         *)
(***************************************************************************)
MaxStr == 3         \* largest strength tried, in units of 1e-6

SolverOutputs(n) ==
    {[j \in 1..n |-> IF j = k THEN a ELSE b] : k \in 1..n, a \in 0..MaxStr, b \in {0, MaxStr}}

\* the outputs tried in the study of whole runs: every candidate at zero, or
\* every candidate at the largest strength
UniformOutputs(n) == {[j \in 1..n |-> v] : v \in {0, MaxStr}}

Resids == {0, 1}

(***************************************************************************)
(* SpecTfam: one call of regress_tfam on a family drawn from a menu of     *)
(* ORFs of the two transcripts, under each mode.                           *)
\* No script is running: the state of the run is not part of the study.
NoRun ==
    /\ metagenefile = None /\ outfile = None
    /\ startrange = <<>> /\ stoprange = <<>>
    /\ files = <<>> /\ orfstore = <<>> /\ metagene = <<>>
    /\ bedlinedict = {} /\ tfamtids = <<>>
    /\ mg_results = <<>> /\ num_cds_incl = 0
    /\ chrom_results = <<>> /\ raised = None
    /\ regressfiles = <<>> /\ goldallcodons = FALSE /\ orfratings = <<>> /\ gold_df = <<>>
    /\ NoSearch

(***************************************************************************)
MaxOrfs == 2        \* most rows of all_ORFs in the family

\* <<tid, tcoord, codons>>: a 5'-truncated one-codon ORF, two ORFs sharing a
\* start, one of them sharing its stop with a fourth, and one across the intron.
RowMenu == <<
    <<"t1", 1, 1>>, <<"t1", 3, 2>>, <<"t1", 3, 4>>, <<"t2", 3, 2>>, <<"t1", 9, 2>> >>

MenuRows(str) ==
    [k \in 1..Len(RowMenu) |->
        OrfRow(RowMenu[k][1], str, RowMenu[k][2], RowMenu[k][2] + 3 * RowMenu[k][3])]

Families(str) ==
    {Take(MenuRows(str), idx) :
        idx \in {S \in SUBSET (1..Len(RowMenu)) : S # {} /\ Cardinality(S) <= MaxOrfs}}

Strands == {"+", "-"}

\* STARTRANGE, STOPRANGE of the runs studied
TfamWindows == {<<<<1, 1>>, <<3, 0>>>>, <<<<1, 1>>, <<3, 1>>>>}

\* frame positions that carry one read (in every read-length row)
ReadSets == {{}, {2}, 0..(TLen + 2)}

CountsOf(reads, nnt) == [e \in 1..(NRd * nnt) |-> IF ((e - 1) % nnt) \in reads THEN 1 ELSE 0]

InitTfam ==
    /\ pc = "ready"
    /\ \E w \in TfamWindows :
          /\ startnt = WindowNt(w[1])
          /\ stopnt = WindowNt(w[2])
    /\ startprof = StartTemplate(startnt)
    /\ cdsprof = CdsTemplate
    /\ stopprof = StopTemplate(stopnt)
    /\ orflen = 0 /\ profile = None
    /\ startonly \in BOOLEAN
    /\ startcount \in {0, 1}
    /\ strand \in Strands
    /\ ORF_set \in Families(strand)
    /\ \E reads \in ReadSets : counts = CountsOf(reads, Len(all_tfam_genpos(ORF_set, strand)))
    /\ result = None
    /\ NoRun

\* Every outcome of regress_tfam(rows): one per output of the solver, when the
\* call gets that far; uniform restricts the solver to UniformOutputs.
regress_tfam_outcomes(rows, str, cnt, uniform) ==
    LET asm == Assemble(rows, str, cnt)
    IN IF asm.over THEN {asm.out}
       ELSE {Fit(asm, x, resid) :
                x \in IF uniform THEN UniformOutputs(Len(asm.df)) ELSE SolverOutputs(Len(asm.df)),
                resid \in Resids}

CallRegressTfam ==
    /\ pc = "ready"
    /\ result' \in regress_tfam_outcomes(ORF_set, strand, counts, FALSE)
    /\ pc' = "returned"
    /\ UNCHANGED <<profVars, callVars, startonly, startcount, strand, ORF_set, counts, runVars,
                   rateVars>>

NextTfam == CallRegressTfam

SpecTfam == InitTfam /\ [][NextTfam]_vars

(***************************************************************************)
(* Spec: one run of the script, lines 309-370.  The two workers.map calls  *)
(* hand one unit per chromosome to the pool; the units come back in any    *)
(* order and the script goes on when the call returns or raises.           *)
(***************************************************************************)
chroms == <<"chrI", "chrII">>

rdlens == [i \in 1..NRd |-> 27 + i]

SetMin(S) == CHOOSE x \in S : \A y \in S : x <= y

SetMax(S) == CHOOSE x \in S : \A y \in S : x >= y

\* f with key k bound to v
Put(f, k, v) == [d \in DOMAIN f \cup {k} |-> IF d = k THEN v ELSE f[d]]

\* --- the metagene file -------------------------------------------------
\* the rows of one region: one per position, the values by read length
RegionRows(region, first, prof) ==
    [k \in 1..Len(prof) |-> [region |-> region, position |-> first + k - 1, values |-> prof[k]]]

\* pd.concat((START, CDS, STOP)).to_csv(opts.metagenefile, sep='\t')
to_csv(snt, pnt, sprof, cprof, pprof) ==
    [columns |-> rdlens,
     rows |-> RegionRows("START", snt[1], sprof)
                \o RegionRows("CDS", 0, cprof)
                \o RegionRows("STOP", pnt[1], pprof)]

\* metagene.loc[region]
loc(frame, region) == SelectSeq(frame.rows, LAMBDA r : r.region = region)

\* index.min(), index.max()+1 of the rows of a region
IndexSpan(rows) ==
    LET pos == {rows[k].position : k \in 1..Len(rows)} IN <<SetMin(pos), SetMax(pos) + 1>>

\* Lines 313-324: what the load branch makes of the DataFrame it read
read_metagene(frame) ==
    LET st == loc(frame, "START")
        cd == loc(frame, "CDS")
        sp == loc(frame, "STOP")
    IN IF frame.columns # rdlens
       THEN [raised |-> "AssertionError", at |-> 315]
       ELSE IF st = <<>> \/ cd = <<>> \/ sp = <<>>
       THEN [raised |-> "KeyError", at |-> 316]
       ELSE IF Len(cd) # 3
       THEN [raised |-> "AssertionError", at |-> 320]
       ELSE [raised |-> None, at |-> 324,
             startnt |-> IndexSpan(st), stopnt |-> IndexSpan(sp),
             startprof |-> [k \in 1..Len(st) |-> st[k].values],
             cdsprof |-> [k \in 1..Len(cd) |-> cd[k].values],
             stopprof |-> [k \in 1..Len(sp) |-> sp[k].values]]

\* A variant of line 312 that never takes the file.
use_metagenefile_Never == FALSE

\* opts.metagenefile and os.path.isfile(opts.metagenefile)
use_metagenefile == metagenefile # None /\ metagenefile \in DOMAIN files

\* --- the metagene estimator --------------------------------------------
Scale(arr, n) == [k \in 1..Len(arr) |-> [r \in 1..Len(arr[k]) |-> arr[k][r] * n]]

AddArr(a, b) == [k \in 1..Len(a) |-> [r \in 1..Len(a[k]) |-> a[k][r] + b[k][r]]]

\* arr /= n in float arithmetic: 0/0 is NaN.  The sums divided here are
\* multiples of n, so the quotient is exact.
Divide(arr, n) ==
    [k \in 1..Len(arr) |-> [r \in 1..Len(arr[k]) |-> IF n = 0 THEN NaN ELSE arr[k][r] \div n]]

\* np.zeros((len(rdlens), n))
Zeros(n) == [k \in 1..n |-> Col(0)]

\* The normalised counts of one reference CDS, cut into the three regions of
\* lines 108-110.  A CDS is given by the outcome of the tests of lines 98 and
\* 106 (incl) and by its density: level everywhere, peak on the first
\* nucleotide of the start codon and on the last codon before the stop.
curr_counts(cds) ==
    [startprof |-> [k \in 1..(startnt[2] - startnt[1]) |->
                      Col(IF k = 1 - startnt[1] THEN cds.peak ELSE cds.level)],
     cdsprof |-> [k \in 1..3 |-> Col(cds.level)],
     stopprof |-> [k \in 1..(stopnt[2] - stopnt[1]) |->
                     Col(IF k > -stopnt[1] - 3 /\ k <= -stopnt[1] THEN cds.peak ELSE cds.level)]]

\* prof += ... over the first k CDSs of the loop of line 95
RECURSIVE Accumulate(_, _, _, _)
Accumulate(cds, field, zero, k) ==
    IF k = 0 THEN zero
    ELSE LET sofar == Accumulate(cds, field, zero, k - 1)
         IN IF cds[k].incl THEN AddArr(sofar, curr_counts(cds[k])[field]) ELSE sofar

\* A variant that returns the chromosome's mean profile instead of its sum.
get_annotated_counts_by_chrom_Averaged(c) ==
    LET cds == orfstore[c].cds
        n == Cardinality({k \in 1..Len(cds) : cds[k].incl})
        m == IF n = 0 THEN 1 ELSE n
    IN [startprof |-> Divide(Accumulate(cds, "startprof", Zeros(startnt[2] - startnt[1]), Len(cds)), m),
        cdsprof |-> Divide(Accumulate(cds, "cdsprof", Zeros(3), Len(cds)), m),
        stopprof |-> Divide(Accumulate(cds, "stopprof", Zeros(stopnt[2] - stopnt[1]), Len(cds)), m),
        num_cds_incl |-> n]

\* get_annotated_counts_by_chrom(chrom_to_do): the sums over the included
\* CDSs of the chromosome and their number
get_annotated_counts_by_chrom(c) ==
    LET cds == orfstore[c].cds
    IN [startprof |-> Accumulate(cds, "startprof", Zeros(startnt[2] - startnt[1]), Len(cds)),
        cdsprof |-> Accumulate(cds, "cdsprof", Zeros(3), Len(cds)),
        stopprof |-> Accumulate(cds, "stopprof", Zeros(stopnt[2] - stopnt[1]), Len(cds)),
        num_cds_incl |-> Cardinality({k \in 1..Len(cds) : cds[k].incl})]

\* sum(x) over the results of the chromosomes 1..k, in the order of chroms
RECURSIVE SumProf(_, _, _)
SumProf(res, field, k) ==
    IF k = 1 THEN res[chroms[1]][field]
    ELSE AddArr(SumProf(res, field, k - 1), res[chroms[k]][field])

RECURSIVE SumCount(_, _)
SumCount(res, k) == IF k = 0 THEN 0 ELSE SumCount(res, k - 1) + res[chroms[k]].num_cds_incl

\* --- the regression pass -----------------------------------------------
\* A variant of pd.concat that keeps the last frame only.
ConcatTo_Last(results, i, k) == IF k = 0 THEN <<>> ELSE results[k][i]

RECURSIVE ConcatTo(_, _, _)
ConcatTo(results, i, k) ==
    IF k = 0 THEN <<>> ELSE ConcatTo(results, i, k - 1) \o results[k][i]

\* [pd.concat(res_dfs) for res_dfs in zip(*results)]: zip stops at the
\* shortest tuple
ZipConcat(results) ==
    LET n == SetMin({Len(results[f]) : f \in 1..Len(results)})
    IN [i \in 1..n |-> ConcatTo(results, i, Len(results))]

\* [regress_tfam(tfam_set) for (tfam, tfam_set) in chrom_ORFs.groupby('tfam')],
\* families 1..k: every list of outcomes the calls can produce; a call that
\* raises ends the list
RECURSIVE tfam_runs(_, _)
tfam_runs(fams, k) ==
    IF k = 0 THEN {<<>>}
    ELSE LET outs == regress_tfam_outcomes(fams[k].rows, fams[k].strand, fams[k].counts, TRUE)
         IN UNION {IF r # <<>> /\ r[Len(r)].raised # None
                   THEN {r}
                   ELSE {Append(r, o) : o \in outs} : r \in tfam_runs(fams, k - 1)}

\* regress_chrom(chrom_to_do): every outcome, with the list of the calls made
regress_chrom_outcomes(c) ==
    LET fams == orfstore[c].tfams
    IN IF fams = <<>>
       THEN {[raised |-> None, at |-> 305, ret |-> failure_return, tfam_results |-> <<>>]}
       ELSE {IF run[Len(run)].raised # None
             THEN [raised |-> run[Len(run)].raised, at |-> 307, ret |-> None,
                   tfam_results |-> run]
             ELSE [raised |-> None, at |-> 307,
                   ret |-> ZipConcat([f \in 1..Len(run) |-> run[f].ret]),
                   tfam_results |-> run] : run \in tfam_runs(fams, Len(fams))}

\* the tables put into the output store, lines 357-368
outstore(tables) ==
    IF startonly
    THEN [ORF_strengths |-> tables[1], start_strengths |-> tables[2]]
    ELSE [ORF_strengths |-> tables[1], start_strengths |-> tables[2],
          stop_strengths |-> tables[3]]

\* A variant of line 355 that regresses whether or not --outfile is given.
AfterMetagene_Always == "regress_map"

\* if opts.outfile: where the script goes once the templates are in place
AfterMetagene == IF outfile # None THEN "regress_map" ELSE "done"

\* --- the inputs of the runs studied ------------------------------------
MetagenePath == "metagene.txt"

OutPath == "out.h5"

\* a family of all_ORFs with its reads
FamilyOf(idx, str, reads) ==
    LET rows == Take(MenuRows(str), idx)
    IN [rows |-> rows, strand |-> str,
        counts |-> CountsOf(reads, Len(all_tfam_genpos(rows, str)))]

\* a reference CDS with the density of the templates
UnitCds == [incl |-> TRUE, level |-> 1, peak |-> 2]

\* A chromosome without ORFs and CDSs; one with a family without reads and a
\* family with reads everywhere; one whose first family has a one-codon ORF
\* at the 5' end of its transcript.
ChromMenu ==
    {[cds |-> <<>>, tfams |-> <<>>],
     [cds |-> <<UnitCds>>, tfams |-> <<FamilyOf({5}, "-", {}), FamilyOf({2, 3}, "+", 0..(TLen + 2))>>],
     [cds |-> <<UnitCds>>, tfams |-> <<FamilyOf({1}, "+", 0..(TLen + 2)),
                              FamilyOf({2, 3}, "+", 0..(TLen + 2))>>]}

\* a metagene file left by an earlier run with --startrange 1 1 --stoprange 3 0,
\* and one written for other read lengths
SavedMetagene ==
    to_csv(WindowNt(<<1, 1>>), WindowNt(<<3, 0>>),
           StartTemplate(WindowNt(<<1, 1>>)), CdsTemplate, StopTemplate(WindowNt(<<3, 0>>)))

OtherRdlensMetagene == [SavedMetagene EXCEPT !.columns = [i \in 1..(NRd + 1) |-> 27 + i]]

\* a metagene file whose STOP rows run over positions -6..-1 only
ShortStopMetagene ==
    to_csv(WindowNt(<<1, 1>>), WindowNt(<<2, 0>>),
           StartTemplate(WindowNt(<<1, 1>>)), CdsTemplate, StopTemplate(WindowNt(<<2, 0>>)))

\* opts.inbed and TFAMSTEM.txt as parsed at lines 71 and 75-79: the files of
\* the transcripts of the store, an empty BED input, an empty family table
InputMenu ==
    {[bed |-> Tids, tfam |-> [f \in {"f1"} |-> <<"t1", "t2">>]],
     [bed |-> {}, tfam |-> [f \in {"f1"} |-> <<"t1", "t2">>]],
     [bed |-> Tids, tfam |-> <<>>]}

Init ==
    /\ pc = "startup"
    /\ \E inp \in InputMenu : bedlinedict = inp.bed /\ tfamtids = inp.tfam
    /\ metagenefile \in {None, MetagenePath}
    /\ outfile \in {None, OutPath}
    /\ startrange \in {<<1, 1>>, <<1, 0>>, <<0, 0>>}
    /\ stoprange \in {<<3, 0>>, <<2, 0>>}
    /\ startonly \in BOOLEAN
    /\ startcount \in {0, 1}
    /\ orfstore \in [{chroms[i] : i \in 1..Len(chroms)} -> ChromMenu]
    /\ \/ files = <<>>
       \/ /\ metagenefile # None
          /\ \E content \in {SavedMetagene, OtherRdlensMetagene, ShortStopMetagene} :
                files = Put(<<>>, metagenefile, content)
    /\ startnt = <<0, 0>> /\ stopnt = <<0, 0>>
    /\ startprof = <<>> /\ cdsprof = <<>> /\ stopprof = <<>>
    /\ metagene = <<>> /\ mg_results = <<>> /\ num_cds_incl = 0
    /\ chrom_results = <<>> /\ raised = None
    /\ orflen = 0 /\ profile = None
    /\ strand = "+" /\ ORF_set = <<>> /\ counts = <<>> /\ result = None
    /\ regressfiles = <<>> /\ goldallcodons = FALSE /\ orfratings = <<>> /\ gold_df = <<>>
    /\ NoSearch

\* Lines 53-82 and 309-310: the inputs are opened and parsed; an empty BED
\* input ends the script at line 73.  Nothing tests tfamtids or tfambedlines.
Startup ==
    /\ pc = "startup"
    /\ IF bedlinedict = {}
       THEN pc' = "aborted" /\ raised' = "EOFError"
       ELSE pc' = "start" /\ UNCHANGED raised
    /\ UNCHANGED <<rateVars, profVars, callVars, tfamVars, optVars, files, metagene, mg_results,
                   num_cds_incl, chrom_results>>

\* Lines 312-324: the metagene file exists and is read.
LoadMetagene ==
    /\ pc = "start"
    /\ use_metagenefile
    /\ metagene' = files[metagenefile]
    /\ LET r == read_metagene(files[metagenefile])
       IN IF r.raised # None
          THEN /\ pc' = "aborted"
               /\ raised' = r.raised
               /\ UNCHANGED profVars
          ELSE /\ pc' = AfterMetagene
               /\ startnt' = r.startnt /\ stopnt' = r.stopnt
               /\ startprof' = r.startprof /\ cdsprof' = r.cdsprof /\ stopprof' = r.stopprof
               /\ UNCHANGED raised
    /\ UNCHANGED <<rateVars, callVars, tfamVars, optVars, files, mg_results, num_cds_incl, chrom_results>>

\* Lines 325-336: the windows are set from the options, checked, and the
\* estimator is handed to the pool.
StartMetagene ==
    /\ pc = "start"
    /\ ~use_metagenefile
    /\ startnt' = WindowNt(startrange)
    /\ stopnt' = WindowNt(stoprange)
    /\ IF WindowNt(stoprange)[1] >= -6
       THEN pc' = "aborted" /\ raised' = "ValueError"
       ELSE pc' = "metagene_map" /\ UNCHANGED raised
    /\ UNCHANGED <<rateVars, startprof, cdsprof, stopprof, callVars, tfamVars, optVars, files, metagene,
                   mg_results, num_cds_incl, chrom_results>>

\* One unit of workers.map(get_annotated_counts_by_chrom, chroms) comes back.
MetageneUnit(c) ==
    /\ pc = "metagene_map"
    /\ c \notin DOMAIN mg_results
    /\ mg_results' = Put(mg_results, c, get_annotated_counts_by_chrom(c))
    /\ UNCHANGED <<rateVars, pc, profVars, callVars, tfamVars, optVars, files, metagene, num_cds_incl,
                   chrom_results, raised>>

\* Lines 336-353: the map has returned; sum, divide, and write the file if a
\* path was given.
MetageneMerge ==
    /\ pc = "metagene_map"
    /\ DOMAIN mg_results = {chroms[i] : i \in 1..Len(chroms)}
    /\ num_cds_incl' = SumCount(mg_results, Len(chroms))
    /\ startprof' = Divide(SumProf(mg_results, "startprof", Len(chroms)), num_cds_incl')
    /\ cdsprof' = Divide(SumProf(mg_results, "cdsprof", Len(chroms)), num_cds_incl')
    /\ stopprof' = Divide(SumProf(mg_results, "stopprof", Len(chroms)), num_cds_incl')
    /\ files' = IF metagenefile # None
                THEN Put(files, metagenefile, to_csv(startnt, stopnt, startprof', cdsprof', stopprof'))
                ELSE files
    /\ pc' = AfterMetagene
    /\ UNCHANGED <<rateVars, startnt, stopnt, callVars, tfamVars, optVars, metagene, mg_results,
                   chrom_results, raised>>

\* One unit of workers.map(regress_chrom, chroms) comes back, with its tables
\* or with the exception raised in it.
RegressUnit(c) ==
    /\ pc = "regress_map"
    /\ c \notin DOMAIN chrom_results
    /\ \E r \in regress_chrom_outcomes(c) : chrom_results' = Put(chrom_results, c, r)
    /\ UNCHANGED <<rateVars, pc, profVars, callVars, tfamVars, optVars, files, metagene, mg_results,
                   num_cds_incl, raised>>

\* workers.map re-raises in the script the exception of a unit that raised.
RegressAbort ==
    /\ pc = "regress_map"
    /\ \E c \in DOMAIN chrom_results :
          /\ chrom_results[c].raised # None
          /\ raised' = chrom_results[c].raised
    /\ pc' = "aborted"
    /\ UNCHANGED <<rateVars, profVars, callVars, tfamVars, optVars, files, metagene, mg_results,
                   num_cds_incl, chrom_results>>

\* Lines 357-368: the map has returned; concatenate and write the store.
RegressMerge ==
    /\ pc = "regress_map"
    /\ DOMAIN chrom_results = {chroms[i] : i \in 1..Len(chroms)}
    /\ \A c \in DOMAIN chrom_results : chrom_results[c].raised = None
    /\ LET tables == ZipConcat([i \in 1..Len(chroms) |-> chrom_results[chroms[i]].ret])
       IN IF Len(tables) # (IF startonly THEN 2 ELSE 3)
          THEN pc' = "aborted" /\ raised' = "ValueError" /\ UNCHANGED files
          ELSE pc' = "done" /\ files' = Put(files, outfile, outstore(tables)) /\ UNCHANGED raised
    /\ UNCHANGED <<rateVars, profVars, callVars, tfamVars, optVars, metagene, mg_results, num_cds_incl,
                   chrom_results>>

Next ==
    \/ Startup
    \/ LoadMetagene
    \/ StartMetagene
    \/ \E c \in {chroms[i] : i \in 1..Len(chroms)} : MetageneUnit(c)
    \/ MetageneMerge
    \/ \E c \in {chroms[i] : i \in 1..Len(chroms)} : RegressUnit(c)
    \/ RegressAbort
    \/ RegressMerge

Spec == Init /\ [][Next]_vars

(***************************************************************************)
(* SpecRate: the rating stage, rate_regression_output.py lines 79-133: the *)
(* regression stores are merged into one row of features per ORF and the  *)
(* training set is cut from it.  A DataFrame is a sequence of rows; a row  *)
(* maps column ids to values, the id <<name, 0>> for a column of the       *)
(* stores and <<name, k>> for a feature of the k-th regression file.       *)
(***************************************************************************)
MaxReg == 2         \* most regression files given

goldminlen == 100

K(name) == <<name, 0>>

\* the first k sequences of a sequence of sequences, concatenated
RECURSIVE Flatten(_, _)
Flatten(seqs, k) == IF k = 0 THEN <<>> ELSE Flatten(seqs, k - 1) \o seqs[k]

NaNRow(cols) == [c \in cols |-> NaN]

Matches(l, r, on) == \A c \in on : l[c] = r[c]

\* left.merge(right, how='left') on the columns the two frames share
merge_left(left, lcols, right, rcols) ==
    LET on == lcols \cap rcols
        joined(l) ==
            LET hits == SelectSeq(right, LAMBDA r : Matches(l, r, on))
            IN IF hits = <<>> THEN <<l @@ NaNRow(rcols \ lcols)>>
               ELSE [m \in 1..Len(hits) |-> l @@ hits[m]]
    IN Flatten([k \in 1..Len(left) |-> joined(left[k])], Len(left))

\* left.merge(right, how='outer'): the left merge, then the right rows that
\* matched no left row
merge_outer(left, lcols, right, rcols) ==
    LET on == lcols \cap rcols
        unmatched == SelectSeq(right, LAMBDA r : \A k \in 1..Len(left) : ~Matches(left[k], r, on))
    IN merge_left(left, lcols, right, rcols)
          \o [m \in 1..Len(unmatched) |-> unmatched[m] @@ NaNRow(lcols \ rcols)]

\* df.fillna(0.) on the feature columns (the columns of the stores hold no NaN)
fillna(df) ==
    [k \in 1..Len(df) |->
        [c \in DOMAIN df[k] |-> IF c[2] # 0 /\ df[k][c] = NaN THEN 0 ELSE df[k][c]]]

\* instore.select(table, columns=keys+values).rename(values -> values_colname)
select_rename(table, keys, values, k) ==
    [m \in 1..Len(table) |->
        [c \in {K(n) : n \in keys} \cup {<<values[v][2], k>> : v \in 1..Len(values)} |->
            IF c[2] = 0 THEN table[m][c[1]]
            ELSE table[m][values[CHOOSE v \in 1..Len(values) : values[v][2] = c[1]][1]]]]

StartKeys == {"tfam", "chrom", "gcoord", "strand"}

StopKeys == {"tfam", "chrom", "gstop", "strand"}

orf_columns ==
    {"orfname", "tfam", "tid", "chrom", "gcoord", "gstop", "strand", "codon", "AAlen",
     "annot_start", "annot_stop"}

\* allorfs.append(rows, ignore_index=True).drop_duplicates('orfname')
append_orfs(allorfs, table) ==
    drop_duplicates(allorfs \o [m \in 1..Len(table) |-> [c \in {K(n) : n \in orf_columns} |-> table[m][c[1]]]],
                    K("orfname"))

\* Lines 79-110: the loop over the regression files 1..k
RECURSIVE LoadRegressions(_, _)
LoadRegressions(stores, k) ==
    IF k = 0
    THEN [allstarts |-> <<>>, startcols |-> {K(n) : n \in StartKeys},
          allorfs |-> <<>>, orfcols |-> {},
          allstops |-> <<>>, stopcols |-> {K(n) : n \in StopKeys},
          feature_columns |-> <<>>, stopcolnames |-> <<>>]
    ELSE LET acc == LoadRegressions(stores, k - 1)
             store == stores[k]
         IN IF store.full
            THEN LET startvals == <<<<"start_strength", "str_start">>, <<"W_start", "W_start">>>>
                     stopvals == <<<<"stop_strength", "str_stop">>, <<"W_stop", "W_stop">>>>
                     currstartcols == {K(n) : n \in StartKeys} \cup {<<"str_start", k>>, <<"W_start", k>>}
                     currstopcols == {K(n) : n \in StopKeys} \cup {<<"str_stop", k>>, <<"W_stop", k>>}
                 IN [allstarts |-> fillna(merge_outer(acc.allstarts, acc.startcols,
                                     select_rename(store.start_strengths, StartKeys, startvals, k),
                                     currstartcols)),
                     startcols |-> acc.startcols \cup currstartcols,
                     allorfs |-> append_orfs(acc.allorfs, store.orf_strengths),
                     orfcols |-> {K(n) : n \in orf_columns},
                     allstops |-> fillna(merge_outer(acc.allstops, acc.stopcols,
                                     select_rename(store.stop_strengths, StopKeys, stopvals, k),
                                     currstopcols)),
                     stopcols |-> acc.stopcols \cup currstopcols,
                     feature_columns |-> acc.feature_columns
                          \o <<<<"W_start", k>>, <<"W_stop", k>>, <<"str_stop", k>>>>,
                     stopcolnames |-> Append(acc.stopcolnames, k)]
            ELSE LET currstartcols == {K(n) : n \in StartKeys} \cup {<<"W_start", k>>}
                 IN [acc EXCEPT
                       !.allstarts = fillna(merge_outer(acc.allstarts, acc.startcols,
                                        select_rename(store.start_strengths, StartKeys,
                                                      <<<<"W_start", "W_start">>>>, k),
                                        currstartcols)),
                       !.startcols = acc.startcols \cup currstartcols,
                       !.feature_columns = Append(acc.feature_columns, <<"W_start", k>>)]

\* A variant that groups by transcript instead of chromosome.
stopgrp_key_ByTid(row) == <<row[K("tid")], row[K("gstop")], row[K("strand")]>>

\* the key of orfratings.groupby(['chrom', 'gstop', 'strand'])
stopgrp_key(row) == <<row[K("chrom")], row[K("gstop")], row[K("strand")]>>

\* x/x.max() of one row within its group, then fillna(0.): a fraction in
\* lowest terms, 0/0 being NaN and so 0
Ratio(x, m) == IF m = 0 THEN <<0, 1>> ELSE <<x \div GCD(x, m), m \div GCD(x, m)>>

\* Lines 116-119: one stopset_rel_str_start column per full regression file
stopset_rel(df, names) ==
    [i \in 1..Len(df) |->
        df[i] @@ [c \in {<<"stopset_rel_str_start", names[n]>> : n \in 1..Len(names)} |->
                     LET grp == {j \in 1..Len(df) : stopgrp_key(df[j]) = stopgrp_key(df[i])}
                         xmax == SetMax({df[j][<<"str_start", c[2]>>] : j \in grp})
                     IN Ratio(df[i][<<"str_start", c[2]>>], xmax)]]

\* Lines 79-121: orfratings and feature_columns, or the exception the frame
\* without columns raises when no file has stop strengths
rate_merge(stores) ==
    LET acc == LoadRegressions(stores, Len(stores))
        real == SelectSeq(acc.allorfs, LAMBDA r : r[K("gcoord")] # r[K("gstop")])
        withstarts == merge_left(real, acc.orfcols, acc.allstarts, acc.startcols)
        withstops == merge_left(withstarts, acc.orfcols \cup acc.startcols,
                                acc.allstops, acc.stopcols)
    IN IF acc.orfcols = {}
       THEN [raised |-> "KeyError", orfratings |-> <<>>, feature_columns |-> <<>>]
       ELSE [raised |-> None,
             orfratings |-> stopset_rel(fillna(withstops), acc.stopcolnames),
             feature_columns |-> acc.feature_columns
                 \o [n \in 1..Len(acc.stopcolnames) |->
                        <<"stopset_rel_str_start", acc.stopcolnames[n]>>]]

\* Lines 126-129
gold_set(df) ==
    {i \in 1..Len(df) :
        /\ df[i][K("AAlen")] >= goldminlen
        /\ goldallcodons \/ df[i][K("codon")] = "ATG"}

\* df.drop_duplicates(['chrom', 'gcoord', 'gstop', 'strand'])
CoordKey(row) == <<row[K("chrom")], row[K("gcoord")], row[K("gstop")], row[K("strand")]>>

drop_duplicate_coords(df) ==
    Take(df, {i \in 1..Len(df) : \A j \in 1..(i - 1) : CoordKey(df[j]) # CoordKey(df[i])})

\* --- the regression stores of the runs studied -------------------------
\* Four ORFs: A and B share start and stop on two transcripts of one family,
\* C shares their stop, D lies on another chromosome.
RateORFs ==
    <<[orfname |-> "A", tfam |-> "f1", tid |-> "t1", chrom |-> "chrI", gcoord |-> 10,
       gstop |-> 400, strand |-> "+", codon |-> "ATG", AAlen |-> 129,
       annot_start |-> TRUE, annot_stop |-> TRUE],
      [orfname |-> "B", tfam |-> "f1", tid |-> "t2", chrom |-> "chrI", gcoord |-> 10,
       gstop |-> 400, strand |-> "+", codon |-> "ATG", AAlen |-> 120,
       annot_start |-> FALSE, annot_stop |-> TRUE],
      [orfname |-> "C", tfam |-> "f1", tid |-> "t1", chrom |-> "chrI", gcoord |-> 70,
       gstop |-> 400, strand |-> "+", codon |-> "CTG", AAlen |-> 109,
       annot_start |-> FALSE, annot_stop |-> TRUE],
      [orfname |-> "D", tfam |-> "f2", tid |-> "t3", chrom |-> "chrII", gcoord |-> 10,
       gstop |-> 400, strand |-> "+", codon |-> "ATG", AAlen |-> 129,
       annot_start |-> TRUE, annot_stop |-> TRUE]>>

\* ORF_strength of A, B, C, D in a regression
StrengthMenu == {<<1, 1, 3, 1>>, <<2, 0, 0, 1>>, <<0, 3, 1, 0>>, <<0, 0, 0, 0>>}

\* The tables regress_ORFs.py leaves for these strengths: the ORFs with a
\* strength, and one start and one stop row per family and coordinate with
\* the sum of the members' strengths; W stands for any weight.
RegressOutput(s, full) ==
    LET kept == {k \in 1..Len(RateORFs) : s[k] > 0}
        sumAt(col, f, g) ==
            SumSeq([k \in 1..Len(RateORFs) |->
                       IF k \in kept /\ RateORFs[k].tfam = f /\ RateORFs[k][col] = g
                       THEN s[k] ELSE 0])
        groups(col) == drop_duplicates(
                           [m \in 1..Cardinality(kept) |->
                               LET o == Take(RateORFs, kept)[m]
                               IN [tfam |-> o.tfam, chrom |-> o.chrom, strand |-> o.strand,
                                   pos |-> o[col], key |-> <<o.tfam, o[col]>>]], "key")
    IN [full |-> full,
        orf_strengths |-> Take(RateORFs, kept),
        start_strengths |->
            [m \in 1..Len(groups("gcoord")) |->
                LET g == groups("gcoord")[m]
                IN [tfam |-> g.tfam, chrom |-> g.chrom, gcoord |-> g.pos, strand |-> g.strand,
                    start_strength |-> sumAt("gcoord", g.tfam, g.pos),
                    W_start |-> 1 + 2 * sumAt("gcoord", g.tfam, g.pos)]],
        stop_strengths |->
            IF full
            THEN [m \in 1..Len(groups("gstop")) |->
                    LET g == groups("gstop")[m]
                    IN [tfam |-> g.tfam, chrom |-> g.chrom, gstop |-> g.pos, strand |-> g.strand,
                        stop_strength |-> sumAt("gstop", g.tfam, g.pos),
                        W_stop |-> 1 + sumAt("gstop", g.tfam, g.pos)]]
            ELSE <<>>]

RECURSIVE SeqsUpTo(_, _)
SeqsUpTo(S, n) ==
    IF n = 0 THEN {<<>>}
    ELSE SeqsUpTo(S, n - 1) \cup {Append(q, x) : q \in {p \in SeqsUpTo(S, n - 1) : Len(p) = n - 1}, x \in S}

InitRate ==
    /\ pc = "rate"
    /\ regressfiles \in SeqsUpTo({RegressOutput(s, full) : s \in StrengthMenu, full \in BOOLEAN},
                                 MaxReg) \ {<<>>}
    /\ goldallcodons \in BOOLEAN
    /\ orfratings = <<>> /\ gold_df = <<>>
    /\ NoSearch
    /\ raised = None
    /\ metagenefile = None /\ outfile = None
    /\ startrange = <<>> /\ stoprange = <<>>
    /\ files = <<>> /\ orfstore = <<>> /\ metagene = <<>>
    /\ bedlinedict = {} /\ tfamtids = <<>>
    /\ mg_results = <<>> /\ num_cds_incl = 0 /\ chrom_results = <<>>
    /\ startnt = <<0, 0>> /\ stopnt = <<0, 0>>
    /\ startprof = <<>> /\ cdsprof = <<>> /\ stopprof = <<>>
    /\ orflen = 0 /\ profile = None
    /\ startonly = FALSE /\ startcount = 0
    /\ strand = "+" /\ ORF_set = <<>> /\ counts = <<>> /\ result = None

\* Lines 79-121
MergeRegressions ==
    /\ pc = "rate"
    /\ LET r == rate_merge(regressfiles)
       IN /\ raised' = r.raised
          /\ orfratings' = r.orfratings
          /\ pc' = IF r.raised # None THEN "aborted" ELSE "rated"
    /\ UNCHANGED <<profVars, callVars, tfamVars, optVars, files, metagene, mg_results,
                   num_cds_incl, chrom_results, regressfiles, goldallcodons, gold_df, searchVars>>

\* Lines 126-133
CutGoldSet ==
    /\ pc = "rated"
    /\ gold_df' = drop_duplicate_coords(Take(orfratings, gold_set(orfratings)))
    /\ pc' = "gold"
    /\ UNCHANGED <<profVars, callVars, tfamVars, runVars, regressfiles, goldallcodons, orfratings,
                   searchVars>>

NextRate == MergeRegressions \/ CutGoldSet

SpecRate == InitRate /\ [][NextRate]_vars

\* the feature columns of the run: every column of orfratings that belongs to
\* a regression file
FeatureColumns(df) == UNION {{c \in DOMAIN df[i] : c[2] # 0} : i \in 1..Len(df)}

\* C8: two rows of orfratings with the same chromosome, strand, genomic start
\* and genomic stop hold the same value in every feature column, whatever
\* start-only and full regression files were merged; so the training set
\* after drop_duplicates holds, for every row it was cut from, a row with the
\* same coordinates and the same features.
C8_SameCoordinatesSameFeatures ==
    /\ pc \in {"rated", "gold"} =>
          /\ \A i \in 1..Len(orfratings) : FeatureColumns(orfratings) \subseteq DOMAIN orfratings[i]
          /\ \A i, j \in 1..Len(orfratings) :
                CoordKey(orfratings[i]) = CoordKey(orfratings[j]) =>
                   \A c \in FeatureColumns(orfratings) : orfratings[i][c] = orfratings[j][c]
    /\ pc = "gold" =>
          /\ \A i \in gold_set(orfratings) :
                \E m \in 1..Len(gold_df) :
                   /\ CoordKey(gold_df[m]) = CoordKey(orfratings[i])
                   /\ \A c \in FeatureColumns(orfratings) : gold_df[m][c] = orfratings[i][c]
          /\ \A m, n \in 1..Len(gold_df) : CoordKey(gold_df[m]) = CoordKey(gold_df[n]) => m = n

\* two ORFs on different transcripts with the same coordinates, rated from a
\* start-only and a full regression file, one of them dropped from the
\* training set
C8_Witness_DuplicateDropped ==
    /\ pc = "gold"
    /\ \E a, b \in 1..Len(regressfiles) : regressfiles[a].full /\ ~regressfiles[b].full
    /\ \E i, j \in gold_set(orfratings) :
          /\ orfratings[i][K("tid")] # orfratings[j][K("tid")]
          /\ CoordKey(orfratings[i]) = CoordKey(orfratings[j])
          /\ \E c \in FeatureColumns(orfratings) : c[1] = "W_start" /\ orfratings[i][c] > 0
    /\ Len(gold_df) < Cardinality(gold_set(orfratings))

(***************************************************************************)
(* Properties of one call of regress_tfam (SpecTfam).                      *)
(***************************************************************************)
\* C2: every strength in the per-ORF result is non-negative and above the
\* 1e-6 threshold; a fitted candidate at or below the threshold is in neither
\* the per-ORF result nor the columns covmat is computed from, and the
\* strength of a row is what nnls returned for that candidate.
C2_OnlyAboveThresholdRetained ==
    (pc = "returned" /\ result.at \in {270, 283, 294, 296}) =>
        LET fitted == result.fit.fitted
            x == result.fit.ORF_strs
            cov == result.fit.covmat_ORFs
            above == {fitted[j] : j \in {i \in 1..Len(fitted) : x[i] > min_str}}
        IN /\ {cov[k] : k \in 1..Len(cov)} = above
           /\ result.raised = None =>
                 LET df == result.ret[1]
                 IN /\ {df[k].ORF_name : k \in 1..Len(df)} = above
                    /\ \A k \in 1..Len(df) :
                          /\ df[k].ORF_strength >= 0
                          /\ df[k].ORF_strength > min_str
                          /\ \A j \in 1..Len(fitted) :
                                fitted[j] = df[k].ORF_name => df[k].ORF_strength = x[j]

\* a call that returned all three tables although nnls put one candidate
\* exactly at the threshold
C2_Witness_AtThreshold ==
    /\ pc = "returned" /\ result.at = 294
    /\ \E j \in 1..Len(result.fit.fitted) :
          /\ result.fit.ORF_strs[j] = min_str
          /\ \A k \in 1..Len(result.ret[1]) : result.ret[1][k].ORF_name # result.fit.fitted[j]

\* C6: the start groups hold the retained real ORFs (and, in start-only mode,
\* the retained abortive-initiation candidates) under their genomic start; the
\* stop groups hold the retained real ORFs and stop-peak candidates under their
\* genomic stop, never an abortive-initiation candidate, and start-only mode
\* has neither stop-peak candidates nor stop groups.
C6_GroupMembership ==
    (pc = "returned" /\ result.at \in {283, 294, 296}) =>
        LET cov == result.fit.covmat_ORFs
            retained == {cov[k] : k \in 1..Len(cov)}
            starts == result.fit.gcoord_grps
            stops == result.fit.gstop_grps
        IN /\ UNION {starts[g] : g \in DOMAIN starts}
                 = {n \in retained : n.kind = "orf" \/ (startonly /\ n.kind = "abort")}
           /\ \A g \in DOMAIN starts : starts[g] # {} /\ \A n \in starts[g] : n.g = g
           /\ startonly => /\ \A n \in retained : n.kind # "stop"
                           /\ DOMAIN stops = {}
           /\ ~startonly =>
                 /\ UNION {stops[h] : h \in DOMAIN stops}
                       = {n \in retained : n.kind \in {"orf", "stop"}}
                 /\ \A h \in DOMAIN stops :
                       /\ stops[h] # {}
                       /\ \A n \in stops[h] : IF n.kind = "orf" THEN n.h = h ELSE n.g = h

\* a full-mode call that retained a real ORF, an abortive-initiation candidate
\* and a stop-peak candidate
C6_Witness_AllKinds ==
    /\ pc = "returned" /\ result.at = 294
    /\ \A kind \in {"orf", "abort", "stop"} :
          \E k \in 1..Len(result.ret[1]) : result.ret[1][k].ORF_name.kind = kind

\* C7: the start-strength table has exactly one record for every genomic start
\* g of a start-group member, and its start_strength is the sum of the
\* ORF_strength of the members whose genomic start is g; likewise the
\* stop-strength table has one record per genomic stop of a stop-group member,
\* holding the sum over the members with that stop.
C7_StartStrengthIsSum ==
    (pc = "returned" /\ result.at \in {294, 296}) =>
        LET df == result.ret[1]
            tab == result.ret[2]
            members == {k \in 1..Len(df) :
                           \/ df[k].ORF_name.kind = "orf"
                           \/ startonly /\ df[k].ORF_name.kind = "abort"}
            sumOver(S) == SumSeq([k \in 1..Len(df) |-> IF k \in S THEN df[k].ORF_strength ELSE 0])
        IN /\ {tab[i].gcoord : i \in 1..Len(tab)} = {df[k].gcoord : k \in members}
           /\ \A i, j \in 1..Len(tab) : tab[i].gcoord = tab[j].gcoord => i = j
           /\ \A i \in 1..Len(tab) :
                 tab[i].start_strength = sumOver({k \in members : df[k].gcoord = tab[i].gcoord})
           /\ result.at = 294 =>
                 LET stab == result.ret[3]
                     smembers == {k \in 1..Len(df) : df[k].ORF_name.kind \in {"orf", "stop"}}
                 IN /\ {stab[i].gstop : i \in 1..Len(stab)} = {df[k].gstop : k \in smembers}
                    /\ \A i, j \in 1..Len(stab) : stab[i].gstop = stab[j].gstop => i = j
                    /\ \A i \in 1..Len(stab) :
                          stab[i].stop_strength
                              = sumOver({k \in smembers : df[k].gstop = stab[i].gstop})

\* a start group of two real ORFs with different strengths
C7_Witness_TwoMembers ==
    /\ pc = "returned" /\ result.at = 294
    /\ \E k, j \in 1..Len(result.ret[1]) :
          LET df == result.ret[1]
          IN /\ df[k].ORF_name.kind = "orf" /\ df[j].ORF_name.kind = "orf"
             /\ df[k].gcoord = df[j].gcoord
             /\ df[k].ORF_strength # df[j].ORF_strength

\* C9: a candidate whose expected profile has zero dot product with the counts
\* is not handed to nnls and is in no table and no group of the result (so of
\* two candidates with disjoint supports, where only one has counts, the
\* other is absent); when every candidate has zero support the call returns
\* the empty result, and only then does it return at line 229.
C9_ZeroSupportDropped ==
    (pc = "returned" /\ result.at \notin {185, 221}) =>
        LET cands == result.fit.candidates
            dots == result.fit.support
            zero == {cands[j] : j \in {i \in 1..Len(cands) : dots[i] = 0}}
            all == {cands[j] : j \in 1..Len(cands)}
            fitted == result.fit.fitted
            starts == result.fit.gcoord_grps
            stops == result.fit.gstop_grps
        IN /\ {fitted[j] : j \in 1..Len(fitted)} \cap zero = {}
           /\ \A g \in DOMAIN starts : starts[g] \cap zero = {}
           /\ \A h \in DOMAIN stops : stops[h] \cap zero = {}
           /\ result.at \in {294, 296} =>
                 {result.ret[1][k].ORF_name : k \in 1..Len(result.ret[1])} \subseteq all \ zero
           /\ (zero = all) <=> (result.at = 229)
           /\ result.at = 229 => result.raised = None /\ result.ret = failure_return

\* a call that dropped a real ORF for lack of support and reported another
\* candidate
C9_Witness_OneDropped ==
    /\ pc = "returned" /\ result.at = 294 /\ Len(result.ret[1]) > 0
    /\ \E j \in 1..Len(result.fit.candidates) :
          /\ result.fit.candidates[j].kind = "orf"
          /\ result.fit.support[j] = 0

(***************************************************************************)
(* SpecProfile: one call of ORF_profile under every accepted window        *)
(* configuration.                                                          *)
(***************************************************************************)
InitProfile ==
    /\ pc = "ready"
    /\ \E a \in 0..MaxWin, b \in 0..MaxWin, c \in 3..MaxStopWin, d \in 0..MaxWin :
          /\ startnt = WindowNt(<<a, b>>)
          /\ stopnt = WindowNt(<<c, d>>)
    /\ startprof = StartTemplate(startnt)
    /\ cdsprof = CdsTemplate
    /\ stopprof = StopTemplate(stopnt)
    /\ orflen \in {3 * k : k \in 1..MaxOrfCodons}
    /\ profile = None
    /\ startonly = FALSE /\ startcount = 0 /\ strand = "+"
    /\ ORF_set = <<>> /\ counts = <<>> /\ result = None
    /\ NoRun

CallORFProfile ==
    /\ pc = "ready"
    /\ profile' = ORF_profile(orflen)
    /\ pc' = "returned"
    /\ UNCHANGED <<profVars, orflen, tfamVars, runVars, rateVars>>

NextProfile == CallORFProfile

SpecProfile == InitProfile /\ [][NextProfile]_vars

\* C1: in every accepted window configuration and for every ORF length that is a
\* positive multiple of 3, ORF_profile(orflen) has exactly
\* orflen + stopnt[1] - startnt[0] columns, in each of its four regimes.
C1_ProfileLength ==
    pc = "returned" => Len(profile) = orflen + stopnt[2] - startnt[1]

\* C1 restricted to the regimes the code gets right.
C1_LengthOutsideVeryShortNoStartBody ==
    (pc = "returned" /\ ~(Regime(orflen) = "veryshort" /\ startnt[2] = 0))
        => Len(profile) = orflen + stopnt[2] - startnt[1]

C1_Witness_VeryShort ==
    pc = "returned" /\ Regime(orflen) = "veryshort" /\ startnt[2] = 0
        /\ Len(profile) = stopnt[2] - startnt[1]

(***************************************************************************)
(* Properties of a run of the script (Spec).                               *)
(***************************************************************************)
\* C3: a family with no candidate left after the start-count filter, with no
\* column that has support in the counts, or with no strength above the
\* threshold returns the empty marker without raising; every value
\* regress_tfam returns has 2 tables in start-only mode and 3 otherwise, and
\* regress_chrom concatenates the tables of all its families, empty or not,
\* into as many tables, losing and adding no row.
C3_EmptyMarkerConcatenates ==
    \A c \in DOMAIN chrom_results :
        LET res == chrom_results[c]
            fams == orfstore[c].tfams
            arity == IF startonly THEN 2 ELSE 3
        IN /\ \A f \in 1..Len(res.tfam_results) :
                 LET o == res.tfam_results[f]
                     frame == all_tfam_genpos(fams[f].rows, fams[f].strand)
                     nostart ==
                         /\ startcount # 0
                         /\ \A k \in 1..Len(fams[f].rows) :
                               StartReads(fams[f].rows[k], frame, fams[f].counts) < startcount
                     nosupport ==
                         /\ o.fit.candidates # <<>>
                         /\ \A j \in 1..Len(o.fit.support) : ~(o.fit.support[j] > 0)
                     nostrength ==
                         /\ o.fit.fitted # <<>>
                         /\ \A j \in 1..Len(o.fit.ORF_strs) : o.fit.ORF_strs[j] <= min_str
                 IN /\ (nostart \/ nosupport \/ nostrength) =>
                          /\ o.raised = None
                          /\ o.ret = failure_return
                          /\ \A i \in 1..Len(o.ret) : o.ret[i] = <<>>
                    /\ o.raised = None => Len(o.ret) = arity
           /\ res.raised = None =>
                 /\ Len(res.tfam_results) = Len(fams)
                 /\ Len(res.ret) = arity
                 /\ \A i \in 1..arity :
                       /\ Len(res.ret[i])
                             = SumSeq([f \in 1..Len(fams) |-> Len(res.tfam_results[f].ret[i])])
                       /\ \A f \in 1..Len(fams) :
                             \A k \in 1..Len(res.tfam_results[f].ret[i]) :
                                \E m \in 1..Len(res.ret[i]) :
                                   res.ret[i][m] = res.tfam_results[f].ret[i][k]

\* a chromosome whose first family returned the empty marker and whose second
\* family returned rows, concatenated
C3_Witness_Mixed ==
    \E c \in DOMAIN chrom_results :
        /\ chrom_results[c].raised = None
        /\ Len(chrom_results[c].tfam_results) = 2
        /\ chrom_results[c].tfam_results[1].at \in {185, 229}
        /\ chrom_results[c].tfam_results[2].at \in {294, 296}
        /\ Len(chrom_results[c].ret[1]) > 0

\* C4: a singular matrix in one family's regression (lines 243, 270, 283) is
\* contained: the family yields the empty marker, its chromosome's unit does
\* not fail, and the run does not end on the numeric error.
C4_NumericFailureContained ==
    /\ \A c \in DOMAIN chrom_results :
          /\ chrom_results[c].raised # "LinAlgError"
          /\ \A f \in 1..Len(chrom_results[c].tfam_results) :
                LET o == chrom_results[c].tfam_results[f]
                IN o.at \in {243, 270, 283} => (o.raised = None /\ o.ret = failure_return)
    /\ pc = "aborted" => raised # "LinAlgError"

\* the run ended on the LinAlgError of one family although another
\* chromosome had returned rows; no output store was written
C4_Witness_RunAborted ==
    /\ pc = "aborted" /\ raised = "LinAlgError"
    /\ outfile \notin DOMAIN files
    /\ \E c \in DOMAIN chrom_results :
          /\ chrom_results[c].raised = None
          /\ Len(chrom_results[c].ret[1]) > 0

\* C5: a candidate whose index count differs from its profile length stops the
\* assembly of its family with an error before a matrix is built, no family
\* gets past the assembly with such a candidate, and the error is fatal to
\* that family only: the other families of the chromosome are still
\* processed and the chromosome's unit does not fail.
C5_MismatchFatalToOneFamily ==
    \A c \in DOMAIN chrom_results :
        LET res == chrom_results[c]
            fams == orfstore[c].tfams
        IN /\ \A f \in 1..Len(res.tfam_results) :
                 LET o == res.tfam_results[f]
                     frame == all_tfam_genpos(fams[f].rows, fams[f].strand)
                     cands == Candidates(FilterStartCount(fams[f].rows, frame, fams[f].counts,
                                                          startcount), startonly)
                 IN /\ o.raised = "AssertionError" => o.fit = NoFit
                    /\ o.at \notin {185, 221} =>
                          \A j \in 1..Len(cands) : ~LengthMismatch(cands[j], frame)
           /\ Len(res.tfam_results) = Len(fams)
           /\ res.raised # "AssertionError"

\* the run ended on the AssertionError of a chromosome's first family; the
\* second family of that chromosome was never processed
C5_Witness_RunAborted ==
    /\ pc = "aborted" /\ raised = "AssertionError"
    /\ \E c \in DOMAIN chrom_results :
          /\ chrom_results[c].raised = "AssertionError"
          /\ Len(chrom_results[c].tfam_results) < Len(orfstore[c].tfams)

\* C10: a metagene file that exists at startup is read, its templates and
\* window bounds are the ones used, no estimator unit ever comes back and the
\* file keeps its content; with a path and no file the templates are computed
\* by the estimator and then written to the path in the file layout; with no
\* path the templates are computed and no metagene file appears.
C10_MetageneFileOneDirection ==
    /\ [][(pc = "start" /\ metagenefile # None /\ metagenefile \in DOMAIN files)
             => (metagene' = files[metagenefile] /\ pc' # "metagene_map")]_vars
    /\ [][(pc = "start" /\ ~(metagenefile # None /\ metagenefile \in DOMAIN files))
             => (metagene' = metagene /\ pc' \in {"metagene_map", "aborted"})]_vars
    /\ [][(metagenefile \in DOMAIN files)
             => (metagenefile \in DOMAIN files' /\ files'[metagenefile] = files[metagenefile])]_vars
    /\ [](pc \in {"regress_map", "done"} =>
            IF metagene # <<>>
            THEN /\ mg_results = <<>>
                 /\ metagene = files[metagenefile]
                 /\ to_csv(startnt, stopnt, startprof, cdsprof, stopprof) = metagene
            ELSE /\ DOMAIN mg_results = {chroms[i] : i \in 1..Len(chroms)}
                 /\ metagenefile # None =>
                       /\ metagenefile \in DOMAIN files
                       /\ files[metagenefile]
                             = to_csv(startnt, stopnt, startprof, cdsprof, stopprof)
                 /\ metagenefile = None => MetagenePath \notin DOMAIN files)

\* a run that read its templates from the file and wrote its output store
C10_Witness_Loaded ==
    /\ pc = "done" /\ metagene # <<>>
    /\ outfile \in DOMAIN files
    /\ mg_results = <<>>

(***************************************************************************)
(* C11: the metagene file written at lines 343-353 and read at 312-324.    *)
(***************************************************************************)
\* the templates of this run were computed (not loaded) and persisted
MetagenePersisted ==
    /\ pc \in {"regress_map", "done", "aborted"}
    /\ DOMAIN mg_results = {chroms[i] : i \in 1..Len(chroms)}
    /\ metagenefile # None

\* C11: once a run has computed its templates and written them to the
\* metagene file, a later run with the same read lengths that loads the file
\* gets the same startnt and stopnt and the same start, body and stop
\* templates, value for value.
C11_MetageneRoundTrip ==
    MetagenePersisted =>
        LET r == read_metagene(files[metagenefile])
        IN /\ r.raised = None
           /\ r.startnt = startnt /\ r.stopnt = stopnt
           /\ r.startprof = startprof /\ r.cdsprof = cdsprof /\ r.stopprof = stopprof

\* a run with --startrange 0 0 has written its file: no START row in it
C11_Witness_EmptyStartWindow ==
    /\ MetagenePersisted
    /\ startnt = <<0, 0>>
    /\ loc(files[metagenefile], "START") = <<>>
    /\ read_metagene(files[metagenefile]).raised = "KeyError"

\* the round trip does hold for every window with a start position in it
C11_RoundTripNonEmptyWindows ==
    (MetagenePersisted /\ startnt # <<0, 0>>) =>
        LET r == read_metagene(files[metagenefile])
        IN /\ r.raised = None
           /\ r.startnt = startnt /\ r.stopnt = stopnt
           /\ r.startprof = startprof /\ r.cdsprof = cdsprof /\ r.stopprof = stopprof

(***************************************************************************)
(* C12: the test of the stop window, lines 329-330.                        *)
(***************************************************************************)
\* C12: a stop window with stopnt[0] >= -6 never gets past the start of the
\* run: no metagene unit and no regression unit is dispatched with it, and
\* the run that set it ends with the ValueError of line 330, whether the
\* window comes from STOPRANGE or from the metagene file.
C12_ShortStopWindowRejected ==
    (pc \notin {"startup", "start"} /\ stopnt # <<0, 0>> /\ stopnt[1] >= -6) =>
        /\ pc = "aborted" /\ raised = "ValueError"
        /\ mg_results = <<>> /\ chrom_results = <<>>

\* a run that loaded a file with STOP positions -6..-1 and regressed with it
C12_Witness_LoadedShortWindow ==
    /\ pc = "done"
    /\ metagene = ShortStopMetagene
    /\ stopnt = <<-6, 0>>
    /\ outfile \in DOMAIN files

\* the window taken from STOPRANGE is tested before anything is dispatched
C12_OptionWindowRejected ==
    (pc \notin {"startup", "start"} /\ raised # "EOFError" /\ metagene = <<>> /\ stopnt[1] >= -6) =>
        /\ pc = "aborted" /\ raised = "ValueError"
        /\ mg_results = <<>> /\ chrom_results = <<>>

(***************************************************************************)
(* C13: the tests of the inputs at startup, lines 68-82 and 309-310.       *)
(***************************************************************************)
\* C13: with an empty BED input or an empty family table the run ends with an
\* error at startup: no unit is ever dispatched and neither the metagene file
\* nor the output store is written.
C13_EmptyInputAborts ==
    ((bedlinedict = {} \/ tfamtids = <<>>) /\ pc # "startup") =>
        /\ pc = "aborted" /\ raised # None
        /\ mg_results = <<>> /\ chrom_results = <<>>
        /\ outfile \notin DOMAIN files

\* a run with an empty family table that went through to its output store
C13_Witness_EmptyTfamTable ==
    /\ tfamtids = <<>>
    /\ pc = "done"
    /\ DOMAIN mg_results = {chroms[i] : i \in 1..Len(chroms)}
    /\ metagenefile \in DOMAIN files
    /\ outfile \in DOMAIN files

\* the empty BED input does end the run at line 73, before anything else
C13_EmptyBedAborts ==
    (bedlinedict = {} /\ pc # "startup") =>
        /\ pc = "aborted" /\ raised = "EOFError"
        /\ mg_results = <<>> /\ chrom_results = <<>>
        /\ metagene = <<>>
        /\ outfile \notin DOMAIN files

(***************************************************************************)
(* C14: the templates and the regression pass, lines 312-370.              *)
(***************************************************************************)
\* the module globals hold the templates of lines 316-324 or of lines 336-341
TemplatesComplete ==
    IF metagene # <<>>
    THEN LET r == read_metagene(metagene)
         IN /\ r.raised = None
            /\ startnt = r.startnt /\ stopnt = r.stopnt
            /\ startprof = r.startprof /\ cdsprof = r.cdsprof /\ stopprof = r.stopprof
    ELSE /\ DOMAIN mg_results = {chroms[i] : i \in 1..Len(chroms)}
         /\ num_cds_incl = SumCount(mg_results, Len(chroms))
         /\ startprof = Divide(SumProf(mg_results, "startprof", Len(chroms)), num_cds_incl)
         /\ cdsprof = Divide(SumProf(mg_results, "cdsprof", Len(chroms)), num_cds_incl)
         /\ stopprof = Divide(SumProf(mg_results, "stopprof", Len(chroms)), num_cds_incl)
         /\ Len(startprof) = startnt[2] - startnt[1]
         /\ Len(stopprof) = stopnt[2] - stopnt[1]

\* C14: while the regression units are out, and whenever one has come back,
\* the templates are complete: loaded from the file, or summed over every
\* chromosome and divided by the number of included CDSs; from then on no
\* step changes the templates or the window bounds; a run without --outfile
\* never dispatches a regression unit and ends with complete templates.
C14_TemplatesBeforeRegression ==
    /\ []((pc = "regress_map" \/ chrom_results # <<>>) => TemplatesComplete)
    /\ [][(pc = "regress_map") => (profVars' = profVars /\ num_cds_incl' = num_cds_incl)]_vars
    /\ []((outfile = None) => (pc # "regress_map" /\ chrom_results = <<>>))
    /\ []((outfile = None /\ pc = "done") => (TemplatesComplete /\ OutPath \notin DOMAIN files))

\* a regression unit is back in a run that computed its templates from
\* included CDSs
C14_Witness_UnitAfterMerge ==
    /\ pc = "regress_map"
    /\ chrom_results # <<>>
    /\ metagene = <<>>
    /\ num_cds_incl > 0
    /\ \E c \in DOMAIN chrom_results : chrom_results[c].tfam_results # <<>>

(***************************************************************************)
(* C15: the units of workers.map(regress_chrom, chroms) and the merge,     *)
(* lines 299-307 and 355-370.                                              *)
(***************************************************************************)
\* how many rows of a table are the row r
Occurrences(table, r) == Cardinality({k \in 1..Len(table) : table[k] = r})

\* the tables of the output store in the order of lines 361-369
StoreTables(store) ==
    IF startonly THEN <<store.ORF_strengths, store.start_strengths>>
    ELSE <<store.ORF_strengths, store.start_strengths, store.stop_strengths>>

\* C15: in whatever order the units come back, every table of the output
\* store holds each row exactly as often as the families of all chromosomes
\* returned it; the store is written only when the unit of every chromosome
\* is back; a unit that comes back leaves the results of the other units, the
\* templates, the options and the files as they were, and what each unit
\* returned is an outcome of regress_chrom on the state the run ends in.
C15_MergeIndependentOfOrder ==
    /\ []((outfile \in DOMAIN files) =>
            /\ pc = "done"
            /\ DOMAIN chrom_results = {chroms[i] : i \in 1..Len(chroms)}
            /\ \A c \in DOMAIN chrom_results : chrom_results[c].raised = None
            /\ LET tables == StoreTables(files[outfile])
               IN \A i \in 1..Len(tables) :
                     /\ Len(tables[i])
                           = SumSeq([ci \in 1..Len(chroms) |->
                                SumSeq([f \in 1..Len(chrom_results[chroms[ci]].tfam_results) |->
                                   Len(chrom_results[chroms[ci]].tfam_results[f].ret[i])])])
                     /\ \A k \in 1..Len(tables[i]) :
                           Occurrences(tables[i], tables[i][k])
                             = SumSeq([ci \in 1..Len(chroms) |->
                                  SumSeq([f \in 1..Len(chrom_results[chroms[ci]].tfam_results) |->
                                     Occurrences(chrom_results[chroms[ci]].tfam_results[f].ret[i],
                                                 tables[i][k])])]))
    /\ [][(pc = "regress_map" /\ pc' = "regress_map") =>
             /\ \A c \in DOMAIN chrom_results :
                   c \in DOMAIN chrom_results' /\ chrom_results'[c] = chrom_results[c]
             /\ UNCHANGED <<profVars, optVars, files, startonly, startcount>>]_vars
    /\ []((pc = "done") =>
            \A c \in DOMAIN chrom_results : chrom_results[c] \in regress_chrom_outcomes(c))

\* a store written from rows of both chromosomes
C15_Witness_TwoChromosomes ==
    /\ pc = "done"
    /\ outfile \in DOMAIN files
    /\ \A c \in DOMAIN chrom_results : Len(chrom_results[c].ret[1]) > 0
    /\ Len(files[outfile].ORF_strengths)
          > Len(chrom_results[chroms[1]].ret[1])

(***************************************************************************)
(* C16: the slices of the assembly loop, lines 202-221.                    *)
(***************************************************************************)
\* the bounds of the slice of tid_indices[tid], as lines 213 and 216 compute them
SliceStart(row) ==
    IF row.tcoord # row.tstop THEN row.tcoord + startnt[1] + startadj(row) ELSE row.tstop - 6

SliceStop(row) ==
    IF row.tcoord # row.tstop THEN row.tstop + stopnt[2] - stopadj(row) ELSE row.tstop

\* a row of all_ORFs inside its transcript
WellFormed(row) ==
    /\ 0 < row.tcoord
    /\ row.tcoord + 3 <= row.tstop
    /\ row.tstop <= tlens(row.tid)

\* the candidates the assembly loop of the call under study went through
LoopCandidates ==
    Candidates(FilterStartCount(ORF_set, all_tfam_genpos(ORF_set, strand), counts, startcount),
               startonly)

\* C16: in a family of well-formed ORFs, every candidate the assembly loop
\* handles (real, abortive, histop) is sliced from an index >= 0 to an index
\* <= tlen, the slice has as many positions as the trimmed profile has
\* columns, and the call does not raise the AssertionError of line 221.
C16_SlicesWithinTranscript ==
    (pc = "returned" /\ \A k \in 1..Len(ORF_set) : WellFormed(ORF_set[k])) =>
        /\ \A df \in {LoopCandidates} : \A frame \in {all_tfam_genpos(ORF_set, strand)} :
              \A j \in 1..Len(df) :
                 /\ SliceStart(df[j]) >= 0
                 /\ SliceStop(df[j]) <= tlens(df[j].tid)
                 /\ IndexLen(df[j], frame) = ProfLen(df[j])
        /\ result.raised # "AssertionError"

\* a family with a well-formed ORF that stops at nucleotide 4: the slice of
\* its histop candidate starts at -2 and the call raised at line 221
C16_Witness_HistopNearFivePrime ==
    /\ pc = "returned"
    /\ ~startonly
    /\ \A k \in 1..Len(ORF_set) : WellFormed(ORF_set[k])
    /\ \E row \in {LoopCandidates[j] : j \in 1..Len(LoopCandidates)} :
          /\ row.tcoord = row.tstop
          /\ SliceStart(row) = -2
          /\ LengthMismatch(row, all_tfam_genpos(ORF_set, strand))
    /\ result.raised = "AssertionError" /\ result.at = 221

\* the real and abortive candidates are sliced within the transcript and at
\* the length of their trimmed profile, under the windows of these runs
C16_RealAndAbortiveSlicesFit ==
    (pc = "returned") =>
        \A df \in {LoopCandidates} : \A frame \in {all_tfam_genpos(ORF_set, strand)} :
            \A j \in 1..Len(df) :
                df[j].tcoord # df[j].tstop =>
                   /\ SliceStart(df[j]) >= 0
                   /\ SliceStop(df[j]) <= tlens(df[j].tid)
                   /\ IndexLen(df[j], frame) = ProfLen(df[j])

(***************************************************************************)
(* C17: the candidates of a family, lines 187-199.                         *)
(***************************************************************************)
\* ORF_set as it stands at line 187, after the start-count filter
KeptORFs == FilterStartCount(ORF_set, all_tfam_genpos(ORF_set, strand), counts, startcount)

\* the three kinds by their coordinate flags
IsHistop(row) == row.tcoord = row.tstop

IsAbortive(row) == row.tcoord # row.tstop /\ row.gcoord = row.gstop

IsReal(row) == row.tcoord # row.tstop /\ row.gcoord # row.gstop

\* the rows of df that satisfy a flag, as a set of row numbers
RowsOfKind(df, kind) ==
    {j \in 1..Len(df) :
        CASE kind = "real" -> IsReal(df[j])
          [] kind = "abort" -> IsAbortive(df[j])
          [] OTHER -> IsHistop(df[j])}

\* C17: the candidates of a call are one real candidate per ORF name of the
\* family, one abortive candidate per genomic start (tstop = tcoord + 3,
\* gstop = gcoord) and, unless in start-only mode, one histop candidate per
\* genomic stop (tcoord = tstop, gcoord = gstop), and nothing else; in
\* start-only mode there is no histop candidate; every candidate is of
\* exactly one kind by its flags, and a call that gets past the assembly
\* regresses exactly these candidates.
C17_CandidateKinds ==
    (pc = "returned") =>
        \A kept \in {KeptORFs} : \A df \in {Candidates(kept, startonly)} :
        LET real == RowsOfKind(df, "real")
            abort == RowsOfKind(df, "abort")
            histop == RowsOfKind(df, "stop")
            names == {kept[k].ORF_name : k \in 1..Len(kept)}
            starts == {kept[k].gcoord : k \in 1..Len(kept)}
            stops == {kept[k].gstop : k \in 1..Len(kept)}
        IN /\ real \cup abort \cup histop = 1..Len(df)
           /\ real \cap abort = {} /\ real \cap histop = {} /\ abort \cap histop = {}
           /\ {df[j].ORF_name : j \in real} = names
           /\ Cardinality(real) = Cardinality(names)
           /\ \A j \in real : \E k \in 1..Len(kept) :
                 /\ kept[k].ORF_name = df[j].ORF_name
                 /\ kept[k].gcoord = df[j].gcoord /\ kept[k].gstop = df[j].gstop
           /\ {df[j].gcoord : j \in abort} = starts
           /\ Cardinality(abort) = Cardinality(starts)
           /\ \A j \in abort : df[j].tstop = df[j].tcoord + 3 /\ df[j].ORF_name.kind = "abort"
           /\ IF startonly
              THEN histop = {}
              ELSE /\ {df[j].gstop : j \in histop} = stops
                   /\ Cardinality(histop) = Cardinality(stops)
                   /\ \A j \in histop : df[j].gcoord = df[j].gstop /\ df[j].ORF_name.kind = "stop"
           /\ result.at \notin {185, 221} => result.fit.candidates = ORF_names(df)

\* a call in full mode on two ORFs that share their start and not their
\* stop, which regressed 2 real, 1 abortive and 2 histop candidates
C17_Witness_SharedStart ==
    /\ pc = "returned"
    /\ ~startonly
    /\ Len(KeptORFs) = 2
    /\ KeptORFs[1].gcoord = KeptORFs[2].gcoord
    /\ KeptORFs[1].gstop # KeptORFs[2].gstop
    /\ result.at = 294
    /\ Len(result.fit.candidates) = 5

(***************************************************************************)
(* SpecMetagene: the metagene pass of a run without files, lines 325-341,  *)
(* over every way of spreading reference CDSs of differing densities over  *)
(* the chromosomes.  Densities are in units of 1/12.                       *)
(***************************************************************************)
MaxCds == 3         \* most reference CDSs in the stores

\* two included CDSs of different shape, and one the tests of lines 98/106 leave out
CdsMenu ==
    {[incl |-> TRUE, level |-> 12, peak |-> 24],
     [incl |-> TRUE, level |-> 24, peak |-> 12],
     [incl |-> FALSE, level |-> 12, peak |-> 36]}

InitMetagene ==
    /\ pc = "start"
    /\ metagenefile = None /\ outfile = None
    /\ startrange = <<1, 1>> /\ stoprange = <<3, 0>>
    /\ startonly = FALSE /\ startcount = 0
    /\ bedlinedict = Tids /\ tfamtids = <<>>
    /\ \E cds \in [{chroms[i] : i \in 1..Len(chroms)} -> SeqsUpTo(CdsMenu, MaxCds)] :
          /\ SumSeq([i \in 1..Len(chroms) |-> Len(cds[chroms[i]])]) <= MaxCds
          /\ orfstore = [c \in DOMAIN cds |-> [cds |-> cds[c], tfams |-> <<>>]]
    /\ files = <<>>
    /\ startnt = <<0, 0>> /\ stopnt = <<0, 0>>
    /\ startprof = <<>> /\ cdsprof = <<>> /\ stopprof = <<>>
    /\ metagene = <<>> /\ mg_results = <<>> /\ num_cds_incl = 0
    /\ chrom_results = <<>> /\ raised = None
    /\ orflen = 0 /\ profile = None
    /\ strand = "+" /\ ORF_set = <<>> /\ counts = <<>> /\ result = None
    /\ regressfiles = <<>> /\ goldallcodons = FALSE /\ orfratings = <<>> /\ gold_df = <<>>
    /\ NoSearch

NextMetagene ==
    \/ StartMetagene
    \/ \E c \in {chroms[i] : i \in 1..Len(chroms)} : MetageneUnit(c)
    \/ MetageneMerge

SpecMetagene == InitMetagene /\ [][NextMetagene]_vars

\* every reference CDS of the stores that the tests include, whatever its chromosome
IncludedCds ==
    SelectSeq(Flatten([i \in 1..Len(chroms) |-> orfstore[chroms[i]].cds], Len(chroms)),
              LAMBDA x : x.incl)

\* C18: once merged, every value of the start, body and stop templates is
\* the sum of that value over all included CDSs of all chromosomes, divided
\* by their number (NaN when there is none), and num_cds_incl is their
\* number, however the CDSs are spread over the chromosomes and in whatever
\* order the units come back; the unit of a chromosome that includes no CDS
\* returns all-zero sums and the count 0.
C18_MergedTemplateIsPooledMean ==
    /\ (pc = "done") =>
          \A incl \in {IncludedCds} :
             LET n == Len(incl)
                 pooled(field, k, r) ==
                     SumSeq([i \in 1..n |-> curr_counts(incl[i])[field][k][r]])
                 mean(field, k, r) ==
                     IF n = 0 THEN NaN ELSE pooled(field, k, r) \div n
             IN /\ num_cds_incl = n
                /\ Len(startprof) = startnt[2] - startnt[1]
                /\ Len(cdsprof) = 3
                /\ Len(stopprof) = stopnt[2] - stopnt[1]
                /\ \A r \in 1..NRd :
                      /\ \A k \in 1..Len(startprof) :
                            /\ startprof[k][r] = mean("startprof", k, r)
                            /\ n # 0 => pooled("startprof", k, r) % n = 0
                      /\ \A k \in 1..Len(cdsprof) :
                            /\ cdsprof[k][r] = mean("cdsprof", k, r)
                            /\ n # 0 => pooled("cdsprof", k, r) % n = 0
                      /\ \A k \in 1..Len(stopprof) :
                            /\ stopprof[k][r] = mean("stopprof", k, r)
                            /\ n # 0 => pooled("stopprof", k, r) % n = 0
    /\ \A c \in DOMAIN mg_results :
          (\A k \in 1..Len(orfstore[c].cds) : ~orfstore[c].cds[k].incl) =>
              /\ mg_results[c].num_cds_incl = 0
              /\ mg_results[c].startprof = Zeros(startnt[2] - startnt[1])
              /\ mg_results[c].cdsprof = Zeros(3)
              /\ mg_results[c].stopprof = Zeros(stopnt[2] - stopnt[1])

\* merged templates of two included CDSs of different shape, one on each
\* chromosome, next to a CDS that is left out
C18_Witness_TwoChromosomesPooled ==
    /\ pc = "done"
    /\ num_cds_incl = 2
    /\ \A c \in DOMAIN mg_results : mg_results[c].num_cds_incl = 1
    /\ mg_results[chroms[1]].startprof # mg_results[chroms[2]].startprof
    /\ \E c \in DOMAIN orfstore : \E k \in 1..Len(orfstore[c].cds) : ~orfstore[c].cds[k].incl
    /\ startprof[1][1] = 18

(***************************************************************************)
(* SpecSearch: the search for min_samples_leaf when one value is given,    *)
(* rate_regression_output.py lines 155-184.  The script runs on by itself, *)
(* so its steps are taken as long as one is possible.                      *)
(***************************************************************************)
MaxLeaf == 4        \* largest min_samples_leaf with a score of its own
MaxScore == 2       \* number of score levels above the lowest

\* Values above MaxLeaf leave no split to the trees and all score alike.
\* They are kept exactly up to twice MaxLeaf; of a value beyond, only whether
\* an odd or an even number of doublings led past LeafCap is kept
\* (LeafCap + 1, LeafCap + 2).
LeafCap == 2 * MaxLeaf

\* currval *= 2
Doubled(val) ==
    IF val * 2 <= LeafCap THEN val * 2
    ELSE IF val = LeafCap + 1 THEN LeafCap + 2
    ELSE LeafCap + 1

\* _get_score(val)
get_score(val) == cv_score[Min(val, MaxLeaf)]

InitSearch ==
    /\ pc = "search"
    /\ minperleaf \in 1..MaxLeaf
    /\ cv_score \in [1..MaxLeaf -> 0..MaxScore]
    /\ search = <<>>
    /\ regressfiles = <<>> /\ goldallcodons = FALSE /\ orfratings = <<>> /\ gold_df = <<>>
    /\ raised = None
    /\ metagenefile = None /\ outfile = None
    /\ startrange = <<>> /\ stoprange = <<>>
    /\ files = <<>> /\ orfstore = <<>> /\ metagene = <<>>
    /\ bedlinedict = {} /\ tfamtids = <<>>
    /\ mg_results = <<>> /\ num_cds_incl = 0 /\ chrom_results = <<>>
    /\ startnt = <<0, 0>> /\ stopnt = <<0, 0>>
    /\ startprof = <<>> /\ cdsprof = <<>> /\ stopprof = <<>>
    /\ orflen = 0 /\ profile = None
    /\ startonly = FALSE /\ startcount = 0
    /\ strand = "+" /\ ORF_set = <<>> /\ counts = <<>> /\ result = None

\* Lines 158-164 and the else of line 177: the first two scores and the
\* direction of the search.  best_param and best_score are not assigned yet
\* (held as 0).
StartSearch ==
    /\ pc = "search"
    /\ LET v == minperleaf
           first == get_score(v)
           second == get_score(v * 2)
       IN IF second <= first
          THEN /\ search' = [prevval |-> v * 2, prevres |-> second,
                             currval |-> v, currres |-> first,
                             best_param |-> 0, best_score |-> 0,
                             evaluated |-> {v, v * 2}]
               /\ pc' = "decreasing"
          ELSE /\ search' = [prevval |-> v, prevres |-> first,
                             currval |-> v * 2, currres |-> second,
                             best_param |-> 0, best_score |-> 0,
                             evaluated |-> {v, v * 2}]
               /\ pc' = "increasing"
    /\ UNCHANGED <<profVars, callVars, tfamVars, runVars, regressfiles, goldallcodons, orfratings,
                   gold_df, minperleaf, cv_score>>

\* Lines 165-176: one test of the while condition and what follows it
HalveStep ==
    /\ pc = "decreasing"
    /\ IF search.currres >= search.prevres
       THEN IF search.currval = 1
            THEN /\ search' = [search EXCEPT !.best_score = search.currres,
                                             !.best_param = search.currval]
                 /\ pc' = "searched"
            ELSE /\ search' = [search EXCEPT !.prevval = search.currval,
                                             !.prevres = search.currres,
                                             !.currval = search.currval \div 2,
                                             !.currres = get_score(search.currval \div 2),
                                             !.evaluated = @ \cup {search.currval \div 2}]
                 /\ pc' = "decreasing"
       ELSE /\ search' = [search EXCEPT !.best_score = search.prevres,
                                        !.best_param = search.prevval]
            /\ pc' = "searched"
    /\ UNCHANGED <<profVars, callVars, tfamVars, runVars, regressfiles, goldallcodons, orfratings,
                   gold_df, minperleaf, cv_score>>

\* Lines 178-184: one test of the while condition and what follows it
DoubleStep ==
    /\ pc = "increasing"
    /\ IF search.currres >= search.prevres
       THEN /\ search' = [search EXCEPT !.prevval = search.currval,
                                        !.prevres = search.currres,
                                        !.currval = Doubled(search.currval),
                                        !.currres = get_score(Doubled(search.currval)),
                                        !.evaluated = @ \cup {Doubled(search.currval)}]
            /\ pc' = "increasing"
       ELSE /\ search' = [search EXCEPT !.best_score = search.prevres,
                                        !.best_param = search.prevval]
            /\ pc' = "searched"
    /\ UNCHANGED <<profVars, callVars, tfamVars, runVars, regressfiles, goldallcodons, orfratings,
                   gold_df, minperleaf, cv_score>>

NextSearch == StartSearch \/ HalveStep \/ DoubleStep

SpecSearch == InitSearch /\ [][NextSearch]_vars /\ WF_vars(NextSearch)

\* v, 2v, 4v, ... and v, v//2, v//4, ..., 1
RECURSIVE Doublings(_)
Doublings(v) == IF v > LeafCap THEN {} ELSE {v} \cup Doublings(v * 2)

RECURSIVE Halvings(_)
Halvings(v) == IF v <= 1 THEN {v} ELSE {v} \cup Halvings(v \div 2)

\* best_param is >= 1, comes from minperleaf by doubling or by integer
\* halving, and no value the search scored has a higher score
BestIsBestEvaluated ==
    /\ search.best_param >= 1
    /\ search.best_param \in Doublings(minperleaf) \cup Halvings(minperleaf)
    /\ search.best_param \in search.evaluated
    /\ search.best_score = get_score(search.best_param)
    /\ \A val \in search.evaluated : get_score(val) <= search.best_score

\* C19: for every score function the search comes to its end, and it ends
\* with a best_param >= 1 that comes from the given value by repeated
\* doubling or integer halving and scores highest among the values scored.
C19_SearchTerminatesWithBest ==
    /\ <>(pc = "searched")
    /\ []((pc = "searched") => BestIsBestEvaluated)

\* the scores went up from the given value and have stayed level since:
\* the loop of line 178 is past every value with a score of its own
C19_Witness_Plateau ==
    /\ pc = "increasing"
    /\ search.prevval > MaxLeaf
    /\ search.currres = search.prevres
    /\ get_score(minperleaf) < get_score(minperleaf * 2)

\* whenever the search ends, it ends with the best of the values it scored
C19_BestOfEvaluatedAtEnd ==
    (pc = "searched") => BestIsBestEvaluated

====
